---- MODULE Spec2Model ----
(***************************************************************************)
(* A model of etsy/rules_gitops:                                           *)
(*   - the manifest image resolver (package resolver: ResolveImages and    *)
(*     the imageTagTransformer methods),                                   *)
(*   - the release-train loop of create_gitops_prs.go (branch selection    *)
(*     and recreation),                                                    *)
(*   - the push coordinator of create_gitops_prs.go                        *)
(*     (processResolvedImages: worker pool over an unbuffered channel),    *)
(*   - github_app.CreatePR, github_app.CreateCommit and                    *)
(*     github_app.getFilesToCommit,                                        *)
(*   - one run of main of create_gitops_prs.go, from the flags to the exit *)
(*     of the process, also with CreateCommit taken step by step,          *)
(*   - the files of the checkout across the trains of a run, as            *)
(*     CreateCommit reads them.                                            *)
(*                                                                         *)
(* Go strings are sequences of one-character strings, so that              *)
(* strings.HasPrefix, strings.TrimPrefix and strings.Contains are computed *)
(* and not assumed.  A document is a tagged tree:                          *)
(*   [t |-> "str", v |-> <<chars>>]     a string scalar                     *)
(*   [t |-> "num", v |-> <<chars>>]     a non-string scalar                 *)
(*   [t |-> "map", v |-> [key |-> node]] a mapping (map[string]interface{}) *)
(*   [t |-> "seq", v |-> <<nodes>>]     a sequence ([]interface{})          *)
(***************************************************************************)
EXTENDS Integers, Sequences, FiniteSets, TLC

VARIABLES
    \* ---- resolver (ResolveImages) ----
    imgmap,      \* imgmap argument: image map, key string -> value string
    input,       \* what decoder.Decode yields, in order (the `in` stream)
    pos,         \* index of the next item Decode will yield
    outw,        \* chunks written to `out` so far
    firstObj,    \* local firstObj of ResolveImages
    ret,         \* "running", or how the call ended: "nil", an error
                 \* ("decodeErr", "nameErr", "kindErr", "writeErr"), or "panic"
    emitted,     \* indices of the input items whose document was written
    \* ---- resolveImageName applied to one name ----
    rnName,      \* the imagename argument
    rnMap,       \* pt.images
    rnRes,       \* the returned pair, or the not-yet-called marker
    \* ---- release-train loop of main ----
    trains,      \* trains: train name -> current target list
    branches,    \* deployment branches of the checkout: name -> embedded target list of the last commit
    todo,        \* trains the range loop has not visited yet
    cur,         \* the train being processed, or NoTrain
    tpc,         \* position of main: "loop", "check", "exec", "diff", "commit",
                 \* "done"; or the process died: "fatal"
    recreated,   \* per train: number of RecreateBranch calls
    existed,     \* per train: did SwitchToBranch find the branch
    prevList,    \* per train: ExtractTargets(last commit message) when the branch existed
    \* ---- push coordinator (processResolvedImages) ----
    parN,        \* cfg.PushParallelism
    cmds,        \* cfg.ResolvedPushes, each entry: does the command succeed
    sent,        \* number of commands the producer has handed over
    chClosed,    \* close(resolvedPushChan) done
    wstate,      \* per worker: "idle", "busy", "done"
    wcmd,        \* per worker: index of the command in hand
    execCount,   \* per command: number of times it was started
    finished,    \* per command: it ran to completion
    wgCount,     \* the WaitGroup counter
    ppc,         \* the coordinator: "init", "send", "wait", "returned"; or the
                 \* process died: "fatal" (log.Fatal), "panic"
    \* ---- flags of package github_app ----
    repoOwner,   \* -github_app_repo_owner is not ""
    repo,        \* -github_app_repo is not ""
    gitHubAppId, \* -github_app_id is not 0
    keyOk,       \* ghinstallation.NewKeyFromFile reads -private_key
    githubEnterpriseHost,  \* -github_app_enterprise_host is not ""
    \* ---- github_app.CreatePR called by createPullRequests ----
    entClientOk, \* github.NewEnterpriseClient returns no error
    prResp,      \* the provider's answer to a create request
    prpc,        \* "call", "key", "client", "create", "returned", then the
                 \* caller: "continue" or the process died: "fatal"
    prRet,       \* what CreatePR returned: "none" yet, "nil", "err"
    prCreates,   \* number of create requests sent to the provider
    \* ---- github_app.CreateCommit ----
    ccFilesOk,   \* every path of files exists under gitopsPath
    refExists,   \* the commit branch reference exists on the host before the call
    prExists,    \* a merge request for the branch pair exists before the call
    apiFail,     \* the API call the host rejects for another reason, or "none"
    calls,       \* the hosting-API calls issued, in order
    hostBranch,  \* the commit branch on the host: "absent", "base", "new", "old"
    ccpc,        \* position in CreateCommit, "returned", or the process died: "fatal"
    \* ---- github_app.getFilesToCommit ----
    inputPaths,      \* the inputPaths argument
    pathIdx,         \* index of the input path the range loop is at
    allFileEntries,  \* allFileEntries, as appended to so far
    filesRet,        \* "running", or how the call ended: "ok", "errStat",
                     \* "errWalk", "errEmpty"
    entriesRet,      \* the entries returned (nil is the empty list)
    \* ---- the files of the checkout in a run with the github_app backend ----
    baseTree,        \* the tree of cfg.PRTargetBranch: path -> content, or Absent
    existing,        \* the trains whose deployment branch exists before the run
    branchHead,      \* per train selected so far: the tree of the head of its branch
    workTree,        \* the working tree of the checkout: path -> content, or Absent
    wtodo,           \* trains the range loop has not visited yet
    wcur,            \* the train being processed, or NoTrain
    modifiedFiles,   \* modifiedFiles: the paths appended so far
    listedBy,        \* for each element of modifiedFiles, the train that appended it
    wupdated,        \* the trains whose Commit reported changes (updatedBranches)
    treeEntries,     \* the entries getTree has read: [path, content]
    wpc,             \* "loop", "exec", "diff", "commit", "decide", "stat", "tree",
                     \* "returned" (main returned), or the process died: "fatal"
    \* ---- one run of main: configuration and environment ----
    GitHost,          \* cfg.GitHost
    DryRun,           \* cfg.DryRun
    ResolvedBinaries, \* len(cfg.ResolvedBinaries) > 0
    ResolvedPushes,   \* len(cfg.ResolvedPushes) > 0
    pushCmds,         \* number of push commands of the run (supplied, or found by the query)
    shaLong,          \* BUILDKITE_COMMIT has at least 7 characters
    runTrains,        \* the release trains the run finds
    \* ---- one run of main: what it has done ----
    mpc,              \* position of main; "exit" (main returned), or the process
                      \* died: "fatal" (log.Fatal: os.Exit(1)), "panic"
    cause,            \* what made the run fatal, or "none"
    tmpDir,           \* the temporary checkout directory: "none", "present", "removed"
    cloned,           \* git.Clone has made the checkout
    mtodo,            \* trains the range loop has not visited yet
    mcur,             \* the train being processed, or NoTrain
    switched,         \* trains whose deployment branch was switched to
    committed,        \* trains for which workdir.Commit was called
    updatedBranches,  \* updatedBranches: the trains whose commit reported changes, in order
    execs,            \* per train: number of times its target executable was run
    pushExecs,        \* per push command: number of times it was run
    queries,          \* the build-graph queries run, in order: "trains", "push"
    pushedBranches,   \* branches handed to workdir.Push, in order
    prRequests,       \* merge request creations requested, in order: [from, to]
    apiCommits        \* commits made through the hosting API

rvars == <<imgmap, input, pos, outw, firstObj, ret, emitted>>
nvars == <<rnName, rnMap, rnRes>>
tvars == <<trains, branches, todo, cur, tpc, recreated, existed, prevList>>
pvars == <<parN, cmds, sent, chClosed, wstate, wcmd, execCount, finished, wgCount, ppc>>
gvars == <<repoOwner, repo, gitHubAppId, keyOk, githubEnterpriseHost>>
hvars == <<entClientOk, prResp, prpc, prRet, prCreates>>
cvars == <<ccFilesOk, refExists, prExists, apiFail, calls, hostBranch, ccpc>>
fvars == <<inputPaths, pathIdx, allFileEntries, filesRet, entriesRet>>
wvars == <<baseTree, existing, branchHead, workTree, wtodo, wcur, modifiedFiles,
           listedBy, wupdated, treeEntries, wpc>>
mcfg == <<GitHost, DryRun, ResolvedBinaries, ResolvedPushes, pushCmds, shaLong, runTrains>>
mvars == <<mcfg, mpc, cause, tmpDir, cloned, mtodo, mcur, switched, committed,
           updatedBranches, execs, pushExecs, queries, pushedBranches, prRequests,
           apiCommits>>
vars == <<rvars, nvars, tvars, pvars, gvars, wvars, fvars, hvars, cvars, mvars>>

----------------------------------------------------------------------------
(* Go strings *)

EmptyStr == <<>>

\* strings.HasPrefix(s, p)
HasPrefix(s, p) == Len(s) >= Len(p) /\ SubSeq(s, 1, Len(p)) = p

\* strings.TrimPrefix(s, p)
TrimPrefix(s, p) == IF HasPrefix(s, p) THEN SubSeq(s, Len(p) + 1, Len(s)) ELSE s

\* strings.Contains(s, sub)
Contains(s, sub) == \E i \in 0..(Len(s) - Len(sub)) : SubSeq(s, i + 1, i + Len(sub)) = sub

BuildPrefix == <<"/", "/">>
ColonPrefix == <<":">>
AtPrefix == <<"@">>
IMAGE_URL == <<"I", "M", "A", "G", "E", "_", "U", "R", "L">>

\* a lookup that leaves the key in place when it is missing
MapGetOrKey(m, k) == IF k \in DOMAIN m THEN m[k] ELSE k

\* m[k] of a Go map[string]string: the zero value "" for a missing key
MapGet(m, k) == IF k \in DOMAIN m THEN m[k] ELSE EmptyStr

----------------------------------------------------------------------------
(* Document trees *)

Str(s) == [t |-> "str", v |-> s]
Num(s) == [t |-> "num", v |-> s]
Map(f) == [t |-> "map", v |-> f]
Lst(s) == [t |-> "seq", v |-> s]

\* the result of a transformer method: the tree as mutated in place so far,
\* how the method ended ("ok": nil, "err": an error, "panic": a failed type
\* assertion), and the value the error names
Res(o, r, e) == [o |-> o, r |-> r, e |-> e]
Ok(o) == Res(o, "ok", EmptyStr)

----------------------------------------------------------------------------
(* imageTagTransformer *)

\* a resolveImageName without the "@" rule
resolveImageNameNoAt(images, imagename) ==
    IF imagename \in DOMAIN images
    THEN <<images[imagename], TRUE>>
    ELSE IF HasPrefix(imagename, ColonPrefix) /\ TrimPrefix(imagename, ColonPrefix) \in DOMAIN images
    THEN <<images[TrimPrefix(imagename, ColonPrefix)], TRUE>>
    ELSE <<EmptyStr, FALSE>>

\* resolveImageName: <<newname, ok>>
resolveImageName(images, imagename) ==
    IF imagename \in DOMAIN images
    THEN <<images[imagename], TRUE>>
    ELSE IF HasPrefix(imagename, ColonPrefix) /\ TrimPrefix(imagename, ColonPrefix) \in DOMAIN images
    THEN <<images[TrimPrefix(imagename, ColonPrefix)], TRUE>>
    ELSE IF HasPrefix(imagename, AtPrefix) /\ TrimPrefix(imagename, AtPrefix) \in DOMAIN images
    THEN <<images[TrimPrefix(imagename, AtPrefix)], TRUE>>
    ELSE <<EmptyStr, FALSE>>

\* the loop of updateContainerEnv from entry i on; env is the Go slice as a
\* sequence of nodes, mutated in place; every failed type assertion returns
RECURSIVE EnvLoop(_, _, _)
EnvLoop(images, env, i) ==
    IF i > Len(env) THEN env
    ELSE LET kv == env[i] IN
         IF kv.t # "map" THEN env
         ELSE IF ~("name" \in DOMAIN kv.v /\ kv.v["name"].t = "str") THEN env
         ELSE IF ~Contains(kv.v["name"].v, IMAGE_URL) THEN EnvLoop(images, env, i + 1)
         ELSE IF ~("value" \in DOMAIN kv.v /\ kv.v["value"].t = "str") THEN env
         ELSE LET envValue == kv.v["value"].v
                  v1 == IF HasPrefix(envValue, BuildPrefix)
                        THEN MapGet(images, envValue) ELSE envValue
                  v2 == IF HasPrefix(envValue, ColonPrefix)
                        THEN MapGet(images, SubSeq(envValue, 2, Len(envValue))) ELSE v1
                  kv2 == Map([kv.v EXCEPT !["value"] = Str(v2)])
              IN EnvLoop(images, [env EXCEPT ![i] = kv2], i + 1)

\* updateContainerEnv: the container mapping after the call
updateContainerEnv(images, container) ==
    IF ~("env" \in DOMAIN container /\ container["env"].t = "seq") THEN container
    ELSE [container EXCEPT !["env"] = Lst(EnvLoop(images, container["env"].v, 1))]

\* updateContainer(obj, path): obj[path] is asserted to be a mapping
updateContainer(images, obj, path) ==
    IF obj[path].t # "map" THEN Res(obj, "panic", EmptyStr)
    ELSE LET c1 == updateContainerEnv(images, obj[path].v)
             o1 == [obj EXCEPT ![path] = Map(c1)]
         IN IF ~("image" \in DOMAIN c1 /\ c1["image"].t = "str") THEN Ok(o1)
            ELSE LET imagename == c1["image"].v
                     rn == resolveImageName(images, imagename)
                 IN IF HasPrefix(imagename, BuildPrefix) THEN Res(o1, "err", imagename)
                    ELSE IF rn[2]
                    THEN Ok([obj EXCEPT ![path] = Map([c1 EXCEPT !["image"] = Str(rn[1])])])
                    ELSE Ok(o1)

\* the loop of updateContainers from element i on; cs is the containers slice
RECURSIVE ContainersLoop(_, _, _, _, _)
ContainersLoop(images, obj, path, cs, i) ==
    IF i > Len(cs) THEN Ok([obj EXCEPT ![path] = Lst(cs)])
    ELSE IF cs[i].t # "map" THEN Res([obj EXCEPT ![path] = Lst(cs)], "panic", EmptyStr)
    ELSE LET c1 == updateContainerEnv(images, cs[i].v)
             cs1 == [cs EXCEPT ![i] = Map(c1)]
         IN IF ~("image" \in DOMAIN c1) THEN ContainersLoop(images, obj, path, cs1, i + 1)
            ELSE IF c1["image"].t # "str" THEN ContainersLoop(images, obj, path, cs1, i + 1)
            ELSE LET imagename == c1["image"].v
                     rn == resolveImageName(images, imagename)
                 IN IF rn[2]
                    THEN ContainersLoop(images, obj, path,
                             [cs EXCEPT ![i] = Map([c1 EXCEPT !["image"] = Str(rn[1])])], i + 1)
                    ELSE IF HasPrefix(imagename, BuildPrefix)
                    THEN Res([obj EXCEPT ![path] = Lst(cs1)], "err", imagename)
                    ELSE ContainersLoop(images, obj, path, cs1, i + 1)

\* updateContainers(obj, path): obj[path] is asserted to be a sequence, and
\* each of its elements a mapping
updateContainers(images, obj, path) ==
    IF obj[path].t # "seq" THEN Res(obj, "panic", EmptyStr)
    ELSE ContainersLoop(images, obj, path, obj[path].v, 1)

\* the four fields findAndReplaceTag looks for, in the order it does:
\* the first two by updateContainer, the last two by updateContainers
ShapePaths == <<"container", "spec", "containers", "initContainers">>

\* the two loops with a `found` that is never reset
RECURSIVE PathLoopSticky(_, _, _, _)
PathLoopSticky(images, obj, i, found) ==
    IF i > Len(ShapePaths) THEN [res |-> Ok(obj), found |-> found]
    ELSE LET path == ShapePaths[i] IN
         IF path \notin DOMAIN obj THEN PathLoopSticky(images, obj, i + 1, found)
         ELSE LET r == IF i <= 2 THEN updateContainer(images, obj, path)
                       ELSE updateContainers(images, obj, path)
              IN IF r.r # "ok" THEN [res |-> r, found |-> TRUE]
                 ELSE PathLoopSticky(images, r.o, i + 1, TRUE)

\* the two loops of findAndReplaceTag from path i on; `found` is the local of
\* that name, assigned at every iteration
RECURSIVE PathLoop(_, _, _, _)
PathLoop(images, obj, i, found) ==
    IF i > Len(ShapePaths) THEN [res |-> Ok(obj), found |-> found]
    ELSE LET path == ShapePaths[i] IN
         IF path \notin DOMAIN obj THEN PathLoop(images, obj, i + 1, FALSE)
         ELSE LET r == IF i <= 2 THEN updateContainer(images, obj, path)
                       ELSE updateContainers(images, obj, path)
              IN IF r.r # "ok" THEN [res |-> r, found |-> TRUE]
                 ELSE PathLoop(images, r.o, i + 1, TRUE)

\* findAndReplaceTag / findContainers: the SET of results the call can have.
\* Go ranges over a map in an unspecified order, and a returned error stops
\* the traversal, so the tree reached depends on the order when a child fails.
RECURSIVE findAndReplaceTag(_, _), findContainers(_, _, _), VisitChild(_, _, _), VisitItems(_, _, _)
findAndReplaceTag(images, obj) ==
    LET p == PathLoop(images, obj, 1, FALSE) IN
    IF p.res.r # "ok" THEN {p.res}
    ELSE IF ~p.found
         THEN findContainers(images, p.res.o,
                  {k \in DOMAIN p.res.o : p.res.o[k].t \in {"map", "seq"}})
         ELSE {p.res}

\* findContainers with `keys` still to be ranged over (scalar children fall
\* through the type switch and are left out of keys)
findContainers(images, obj, keys) ==
    IF keys = {} THEN {Ok(obj)}
    ELSE UNION { UNION { IF s.r # "ok" THEN {s} ELSE findContainers(images, s.o, keys \ {k})
                         : s \in VisitChild(images, obj, k) }
                 : k \in keys }

\* one iteration of the range loop of findContainers, on key k
VisitChild(images, obj, k) ==
    IF obj[k].t = "map"
    THEN { Res([obj EXCEPT ![k] = Map(s.o)], s.r, s.e) : s \in findAndReplaceTag(images, obj[k].v) }
    ELSE { Res([obj EXCEPT ![k] = Lst(s.o)], s.r, s.e) : s \in VisitItems(images, obj[k].v, 1) }

\* the inner loop over a sequence child, from element i on; its result
\* carries the sequence
VisitItems(images, items, i) ==
    IF i > Len(items) THEN {Ok(items)}
    ELSE IF items[i].t # "map" THEN VisitItems(images, items, i + 1)
    ELSE UNION { IF s.r # "ok" THEN {Res([items EXCEPT ![i] = Map(s.o)], s.r, s.e)}
                 ELSE VisitItems(images, [items EXCEPT ![i] = Map(s.o)], i + 1)
                 : s \in findAndReplaceTag(images, items[i].v) }

----------------------------------------------------------------------------
(* The state of a part of the program that is not running *)

NoTrain == "none"

NameIdle == rnName = <<>> /\ rnMap = <<>> /\ rnRes = <<>>
ResolveIdle ==
    /\ imgmap = <<>> /\ input = <<>> /\ pos = 1 /\ outw = <<>>
    /\ firstObj = TRUE /\ ret = "idle" /\ emitted = <<>>
TrainsIdle ==
    /\ trains = <<>> /\ branches = <<>> /\ todo = {} /\ cur = NoTrain /\ tpc = "idle"
    /\ recreated = <<>> /\ existed = <<>> /\ prevList = <<>>
PushIdle ==
    /\ parN = 0 /\ cmds = <<>> /\ sent = 0 /\ chClosed = FALSE /\ wstate = <<>>
    /\ wcmd = <<>> /\ execCount = <<>> /\ finished = <<>> /\ wgCount = 0
    /\ ppc = "idle"
ConfigIdle ==
    /\ repoOwner = TRUE /\ repo = TRUE /\ gitHubAppId = TRUE /\ keyOk = TRUE
    /\ githubEnterpriseHost = FALSE
CreatePRIdle ==
    /\ entClientOk = TRUE /\ prResp = "idle" /\ prpc = "idle" /\ prRet = "none"
    /\ prCreates = 0
CommitIdle ==
    /\ ccFilesOk = TRUE /\ refExists = FALSE /\ prExists = FALSE /\ apiFail = "none"
    /\ calls = <<>> /\ hostBranch = "absent" /\ ccpc = "idle"
FilesIdle ==
    /\ inputPaths = <<>> /\ pathIdx = 0 /\ allFileEntries = <<>>
    /\ filesRet = "idle" /\ entriesRet = <<>>
CheckoutIdle ==
    /\ baseTree = <<>> /\ existing = {} /\ branchHead = <<>> /\ workTree = <<>>
    /\ wtodo = {} /\ wcur = NoTrain /\ modifiedFiles = <<>> /\ listedBy = <<>>
    /\ wupdated = {} /\ treeEntries = <<>> /\ wpc = "idle"
HostIdle == ConfigIdle /\ CreatePRIdle /\ CommitIdle
RunIdle ==
    /\ GitHost = "idle" /\ DryRun = FALSE /\ ResolvedBinaries = FALSE
    /\ ResolvedPushes = FALSE /\ pushCmds = 0 /\ shaLong = TRUE /\ runTrains = {}
    /\ mpc = "idle" /\ cause = "none" /\ tmpDir = "none" /\ cloned = FALSE
    /\ mtodo = {} /\ mcur = NoTrain /\ switched = {} /\ committed = {}
    /\ updatedBranches = <<>> /\ execs = <<>> /\ pushExecs = <<>> /\ queries = <<>>
    /\ pushedBranches = <<>> /\ prRequests = <<>> /\ apiCommits = 0

----------------------------------------------------------------------------
(* The inputs of ResolveImages *)

MaxDocs == 2

S_bt == <<"/", "/", "a">>
S_colon == <<":", "a">>
S_at == <<"@", "a">>
S_plain == <<"a">>
S_other == <<"n">>

\* the registry reference a key is mapped to: distinct per key, never
\* beginning with "/", ":" or "@"
RegOf(k) == <<"r">> \o k

\* the image maps: every subset of the two keys "//a" and "a"
ImageMaps == { [k \in D |-> RegOf(k)] : D \in SUBSET {S_bt, S_plain} }

EnvKV(n, v) == Map([name |-> Str(n), value |-> Str(v)])
Ctr(img) == Map([image |-> Str(img)])
CtrEnv(img, n, v) == Map([image |-> Str(img), env |-> Lst(<<EnvKV(n, v)>>)])

\* kind and metadata.name of a valid document
Base == [kind |-> Str(<<"K">>), metadata |-> Map([name |-> Str(<<"m">>)])]

DocItem(obj) == [d |-> "doc", obj |-> obj]
\* an empty document: Decode fails with "... is missing in 'null'"
EmptyItem == [d |-> "empty", obj |-> <<>>]
\* a document Decode rejects
BadItem == [d |-> "bad", obj |-> <<>>]

\* a single container spec under the top-level `spec`
SpecDoc(img) == DocItem(Base @@ [spec |-> Ctr(img)])
\* a single container spec under spec.container
ContainerDoc(img) == DocItem(Base @@ [spec |-> Map([container |-> Ctr(img)])])
\* a workload: spec.template.spec.containers
WorkloadDoc(cs) ==
    DocItem(Base @@ [spec |-> Map([template |-> Map([spec |-> Map([containers |-> Lst(cs)])])])])
\* a pod with initContainers and containers
PodDoc(ics, cs) ==
    DocItem(Base @@ [spec |-> Map([initContainers |-> Lst(ics), containers |-> Lst(cs)])])
\* two sibling subtrees, each with containers
SiblingsDoc(i1, i2) ==
    DocItem(Base @@ [a |-> Map([containers |-> Lst(<<Ctr(i1)>>)]),
                     b |-> Map([containers |-> Lst(<<Ctr(i2)>>)])])
\* an autoscaler: spec.metrics[0].containerResource.container is a string
ScalarContainerDoc ==
    DocItem(Base @@ [spec |-> Map([metrics |-> Lst(<<
        Map([containerResource |-> Map([container |-> Str(<<"c">>)])]) >>)])])
\* metadata without a name
NoNameDoc == DocItem([kind |-> Str(<<"K">>), metadata |-> Map([ns |-> Str(<<"d">>)]),
                      spec |-> Ctr(S_plain)])
\* no kind
NoKindDoc == DocItem([metadata |-> Map([name |-> Str(<<"m">>)]), spec |-> Ctr(S_plain)])

\* a pod spec with containers and, beside them, a child that has containers
NestedDoc ==
    DocItem(Base @@ [spec |-> Map([containers |-> Lst(<<Ctr(S_plain)>>),
                                   extra |-> Map([containers |-> Lst(<<Ctr(S_plain)>>)])])])
\* a workload with two containers that have env lists. In the first, the
\* value of the first entry is no string (valueFrom) and the second entry is
\* an image URL; in the second, the entries are a variable of another name,
\* an image URL that is a build target, and an image URL that is no target
EnvTwoDoc ==
    WorkloadDoc(<<Map([image |-> Str(S_other),
                       env |-> Lst(<<Map([name |-> Str(IMAGE_URL),
                                          valueFrom |-> Map([key |-> Str(<<"k">>)])]),
                                     EnvKV(IMAGE_URL, S_colon)>>)]),
                  Map([env |-> Lst(<<EnvKV(<<"X">>, S_bt),
                                     EnvKV(IMAGE_URL, S_bt),
                                     EnvKV(IMAGE_URL, S_other)>>)])>>)

Family ==
    << SpecDoc(S_bt), SpecDoc(S_colon), NestedDoc, EnvTwoDoc,
       WorkloadDoc(<<Ctr(S_bt)>>), WorkloadDoc(<<Ctr(S_at)>>),
       WorkloadDoc(<<Ctr(S_plain)>>), WorkloadDoc(<<Ctr(S_other)>>),
       ContainerDoc(S_bt),
       PodDoc(<<Ctr(S_bt)>>, <<Ctr(S_colon)>>),
       WorkloadDoc(<<Ctr(S_bt), Ctr(S_colon)>>),
       WorkloadDoc(<<CtrEnv(S_other, IMAGE_URL, S_colon)>>),
       SiblingsDoc(S_bt, S_colon),
       ScalarContainerDoc, NoNameDoc, NoKindDoc, EmptyItem, BadItem >>

\* the streams: every sequence of at most MaxDocs items of the family, by
\* the indices of its items
StreamOf(n, ix) == [i \in 1..n |-> Family[ix[i]]]

----------------------------------------------------------------------------
(* ResolveImages *)

\* the nested string of a mapping at a path of one or two keys, "" when it
\* is missing or not a string (obj.GetName, obj.GetKind)
GetName(obj) ==
    IF "metadata" \in DOMAIN obj /\ obj["metadata"].t = "map"
       /\ "name" \in DOMAIN obj["metadata"].v /\ obj["metadata"].v["name"].t = "str"
    THEN obj["metadata"].v["name"].v ELSE EmptyStr

GetKind(obj) ==
    IF "kind" \in DOMAIN obj /\ obj["kind"].t = "str" THEN obj["kind"].v ELSE EmptyStr

Sep == [c |-> "sep", obj |-> <<>>]

\* yamlenc.Marshal(obj.Object): the canonical serialization of the tree; it
\* carries every field of the tree and nothing else, so a chunk is the tree
Marshal(obj) == [c |-> "doc", obj |-> obj]

\* a separator before every document, the first one too
SeparatorAlways(first) == <<Sep>>

\* what is written before the document: nothing before the first one
Separator(first) == IF first THEN <<>> ELSE <<Sep>>

\* the ways ResolveImages returns a non-nil error
Errors == {"decodeErr", "nameErr", "kindErr", "writeErr"}

CurItem == input[pos]
Decoding == ret = "running" /\ pos <= Len(input)
DecodedDoc == Decoding /\ CurItem.d = "doc"
         /\ GetName(CurItem.obj) # EmptyStr /\ GetKind(CurItem.obj) # EmptyStr

\* what findAndReplaceTag may leave of the current document (its returned
\* error is dropped by ResolveImages: the call is a statement)
Transformed == findAndReplaceTag(imgmap, CurItem.obj)

\* Decode returns io.EOF: the loop ends and nil is returned
DecodeEOF ==
    /\ ret = "running" /\ pos > Len(input)
    /\ ret' = "nil"
    /\ UNCHANGED <<imgmap, input, pos, outw, firstObj, emitted>>
    /\ UNCHANGED <<nvars, tvars, pvars, gvars, wvars, fvars, hvars, cvars, mvars>>

\* Decode fails on an empty document: isEmptyYamlError, the loop goes on
DecodeEmpty ==
    /\ Decoding /\ CurItem.d = "empty"
    /\ pos' = pos + 1
    /\ UNCHANGED <<imgmap, input, outw, firstObj, ret, emitted>>
    /\ UNCHANGED <<nvars, tvars, pvars, gvars, wvars, fvars, hvars, cvars, mvars>>

\* Decode fails otherwise: the loop ends and the error is returned
DecodeFail ==
    /\ Decoding /\ CurItem.d = "bad"
    /\ ret' = "decodeErr"
    /\ UNCHANGED <<imgmap, input, pos, outw, firstObj, emitted>>
    /\ UNCHANGED <<nvars, tvars, pvars, gvars, wvars, fvars, hvars, cvars, mvars>>

MissingName ==
    /\ Decoding /\ CurItem.d = "doc" /\ GetName(CurItem.obj) = EmptyStr
    /\ ret' = "nameErr"
    /\ UNCHANGED <<imgmap, input, pos, outw, firstObj, emitted>>
    /\ UNCHANGED <<nvars, tvars, pvars, gvars, wvars, fvars, hvars, cvars, mvars>>

MissingKind ==
    /\ Decoding /\ CurItem.d = "doc" /\ GetName(CurItem.obj) # EmptyStr
    /\ GetKind(CurItem.obj) = EmptyStr
    /\ ret' = "kindErr"
    /\ UNCHANGED <<imgmap, input, pos, outw, firstObj, emitted>>
    /\ UNCHANGED <<nvars, tvars, pvars, gvars, wvars, fvars, hvars, cvars, mvars>>

\* a type assertion of the transformer fails: the call does not return
TransformPanics ==
    /\ DecodedDoc
    /\ \E s \in Transformed : s.r = "panic"
    /\ ret' = "panic"
    /\ UNCHANGED <<imgmap, input, pos, outw, firstObj, emitted>>
    /\ UNCHANGED <<nvars, tvars, pvars, gvars, wvars, fvars, hvars, cvars, mvars>>

\* the separator (unless first) and the document are written
WriteDoc ==
    /\ DecodedDoc
    /\ \E s \in Transformed :
          /\ s.r # "panic"
          /\ outw' = outw \o Separator(firstObj) \o <<Marshal(s.o)>>
    /\ firstObj' = FALSE
    /\ pos' = pos + 1
    /\ emitted' = Append(emitted, pos)
    /\ UNCHANGED <<imgmap, input, ret>>
    /\ UNCHANGED <<nvars, tvars, pvars, gvars, wvars, fvars, hvars, cvars, mvars>>

\* out.Write of the separator fails
WriteSepFails ==
    /\ DecodedDoc /\ ~firstObj
    /\ \E s \in Transformed : s.r # "panic"
    /\ ret' = "writeErr"
    /\ UNCHANGED <<imgmap, input, pos, outw, firstObj, emitted>>
    /\ UNCHANGED <<nvars, tvars, pvars, gvars, wvars, fvars, hvars, cvars, mvars>>

\* out.Write of the document fails, after the separator was written
WriteDocFails ==
    /\ DecodedDoc
    /\ \E s \in Transformed : s.r # "panic"
    /\ outw' = outw \o Separator(firstObj)
    /\ firstObj' = FALSE
    /\ ret' = "writeErr"
    /\ UNCHANGED <<imgmap, input, pos, emitted>>
    /\ UNCHANGED <<nvars, tvars, pvars, gvars, wvars, fvars, hvars, cvars, mvars>>

ResolveNext ==
    \/ DecodeEOF \/ DecodeEmpty \/ DecodeFail \/ MissingName \/ MissingKind
    \/ TransformPanics \/ WriteDoc \/ WriteSepFails \/ WriteDocFails

----------------------------------------------------------------------------
(* ResolveImages on a stream and an image map (SpecResolve) *)

\* the state at the call of ResolveImages
ResolveInit ==
    /\ imgmap \in ImageMaps
    /\ \E n \in 0..MaxDocs : \E ix \in [1..n -> 1..Len(Family)] : input = StreamOf(n, ix)
    /\ pos = 1 /\ outw = <<>> /\ firstObj = TRUE /\ ret = "running" /\ emitted = <<>>
    /\ NameIdle /\ TrainsIdle /\ FilesIdle /\ CheckoutIdle /\ PushIdle /\ HostIdle /\ RunIdle

SpecResolve == ResolveInit /\ [][ResolveNext]_vars

----------------------------------------------------------------------------
(* resolveImageName on its own (SpecName) *)

MaxNameLen == 3

\* the characters of the names: the two one-character prefixes, the
\* character of the build-target prefix and a letter
NameChars == {":", "@", "/", "a"}

\* the keys an image map may have, among them keys that begin with a prefix
\* character (an external-repository label begins with "@")
KeyCandidates == {S_plain, S_colon, S_at, S_bt}

NotCalled == <<>>

NameInit ==
    /\ \E n \in 0..MaxNameLen : rnName \in [1..n -> NameChars]
    /\ \E D \in SUBSET KeyCandidates : rnMap = [k \in D |-> RegOf(k)]
    /\ rnRes = NotCalled
    /\ ResolveIdle /\ TrainsIdle /\ FilesIdle /\ CheckoutIdle /\ PushIdle /\ HostIdle /\ RunIdle

\* pt.resolveImageName(imagename) is called
CallResolveImageName ==
    /\ rnRes = NotCalled
    /\ rnRes' = resolveImageName(rnMap, rnName)
    /\ UNCHANGED <<rnName, rnMap>>
    /\ UNCHANGED <<rvars, tvars, pvars, gvars, wvars, fvars, hvars, cvars, mvars>>

NameNext == CallResolveImageName

SpecName == NameInit /\ [][NameNext]_vars

\* the name with its one leading character stripped
Stripped(name) == SubSeq(name, 2, Len(name))
Prefixed(name) == HasPrefix(name, ColonPrefix) \/ HasPrefix(name, AtPrefix)

\* C3 as stated: for a name that starts with ":" or "@", resolveImageName
\* succeeds exactly when the stripped name is a key, with that key's value,
\* and reports unresolved otherwise.
C3_PrefixedIffStripped ==
    (rnRes # NotCalled /\ Prefixed(rnName)) =>
        IF Stripped(rnName) \in DOMAIN rnMap
        THEN rnRes = <<rnMap[Stripped(rnName)], TRUE>>
        ELSE rnRes = <<EmptyStr, FALSE>>

\* C3 amended: the same for a name that is not itself a key of the map; a
\* name that is a key resolves to its own value (the exact lookup is first).
C3_PrefixedNotKey ==
    (rnRes # NotCalled /\ Prefixed(rnName)) =>
        IF rnName \in DOMAIN rnMap
        THEN rnRes = <<rnMap[rnName], TRUE>>
        ELSE IF Stripped(rnName) \in DOMAIN rnMap
        THEN rnRes = <<rnMap[Stripped(rnName)], TRUE>>
        ELSE rnRes = <<EmptyStr, FALSE>>

\* witness of C3: a prefixed name, not a key, resolved through its stripped key
C3_Witness ==
    /\ rnRes # NotCalled /\ HasPrefix(rnName, AtPrefix) /\ rnName \notin DOMAIN rnMap
    /\ Stripped(rnName) \in DOMAIN rnMap /\ rnRes[2]

----------------------------------------------------------------------------
(* Claims about ResolveImages (checked under SpecResolve) *)

\* every string value of a field named `image` in a tree
RECURSIVE ImagesOf(_)
ImagesOf(node) ==
    IF node.t = "map"
    THEN UNION { (IF k = "image" /\ node.v[k].t = "str" THEN {node.v[k].v} ELSE {})
                 \cup ImagesOf(node.v[k]) : k \in DOMAIN node.v }
    ELSE IF node.t = "seq"
    THEN UNION { ImagesOf(node.v[i]) : i \in 1..Len(node.v) }
    ELSE {}

DocItems == { i \in 1..Len(input) : input[i].d = "doc" }
ValidItem(i) == /\ input[i].d = "doc"
                /\ GetName(input[i].obj) # EmptyStr /\ GetKind(input[i].obj) # EmptyStr
\* the documents written, in the order written
OutDocs == SelectSeq(outw, LAMBDA c : c.c = "doc")
OutSeps == SelectSeq(outw, LAMBDA c : c.c = "sep")

\* a build-target reference no resolution rule resolves
UnresolvedBT(img) == HasPrefix(img, BuildPrefix) /\ ~resolveImageName(imgmap, img)[2]

\* C1: an image value beginning with "//" that no rule resolves makes
\* ResolveImages fail: it never returns nil for a stream that carries one, and
\* never after writing a document that still carries one.
C1_UnresolvedIsFatal ==
    ret = "nil" =>
        /\ \A i \in DocItems : \A img \in ImagesOf(Map(input[i].obj)) : ~UnresolvedBT(img)
        /\ \A j \in 1..Len(OutDocs) : \A img \in ImagesOf(Map(OutDocs[j].obj)) : ~UnresolvedBT(img)

\* m is a container mapping whose image is an exact key of the image map
ExactImage(m) == "image" \in DOMAIN m /\ m["image"].t = "str" /\ m["image"].v \in DOMAIN imgmap
\* the image of the output container o is what the map gives for that of m
MappedImage(m, o) == o["image"].v = imgmap[m["image"].v]

\* in the output mapping o of the input mapping m, every container spec
\* (under `container` or `spec`, or an element of `containers` or
\* `initContainers`), at any depth, whose image is an exact key carries the
\* mapped value
RECURSIVE ExactResolved(_, _)
ExactResolved(m, o) ==
    \A k \in DOMAIN m :
        /\ (k \in {"container", "spec"} /\ m[k].t = "map" /\ ExactImage(m[k].v))
               => MappedImage(m[k].v, o[k].v)
        /\ (k \in {"containers", "initContainers"} /\ m[k].t = "seq")
               => \A i \in 1..Len(m[k].v) :
                      (m[k].v[i].t = "map" /\ ExactImage(m[k].v[i].v))
                          => MappedImage(m[k].v[i].v, o[k].v[i].v)
        /\ m[k].t = "map" => ExactResolved(m[k].v, o[k].v)
        /\ m[k].t = "seq" => \A i \in 1..Len(m[k].v) :
                                 m[k].v[i].t = "map" => ExactResolved(m[k].v[i].v, o[k].v[i].v)

\* C2: an image name that is an exact key of the image map (also one that
\* begins with "//") is replaced by the mapped value in every written
\* document, wherever the container sits.
C2_ExactKeyEverywhere ==
    \A j \in 1..Len(OutDocs) : ExactResolved(input[emitted[j]].obj, OutDocs[j].obj)

\* C4: a stream with a non-empty document whose name or kind is empty makes
\* ResolveImages return an error: the call ends in no other way.
C4_MissingNameKindFails ==
    (\E i \in DocItems : ~ValidItem(i)) => ret \in {"running"} \cup Errors

\* C5: when ResolveImages returns an error for a decode failure or a missing
\* name or kind, nothing has been written: no output for the documents before.
C5_NoPartialOutput == ret \in {"decodeErr", "nameErr", "kindErr"} => outw = <<>>

\* C6: with an empty image map and valid documents none of whose images
\* begins with "//", a successful call writes the input trees unchanged, as
\* many documents as were read and one separator less.
C6_RoundTrip ==
    ( /\ ret = "nil" /\ DOMAIN imgmap = {}
      /\ \A i \in 1..Len(input) : ValidItem(i)
      /\ \A i \in 1..Len(input) : \A img \in ImagesOf(Map(input[i].obj)) : ~HasPrefix(img, BuildPrefix) )
    => /\ Len(OutDocs) = Len(input)
       /\ \A i \in 1..Len(input) : OutDocs[i].obj = input[i].obj
       /\ Len(OutSeps) = (IF Len(input) = 0 THEN 0 ELSE Len(input) - 1)

\* the increasing sequence of the elements of a set of naturals
RECURSIVE Ascending(_)
Ascending(S) ==
    IF S = {} THEN <<>>
    ELSE LET mx == CHOOSE x \in S : \A y \in S : y <= x
         IN Append(Ascending(S \ {mx}), mx)

\* C7: on success the decoded documents are written in input order, each the
\* transformed tree of its input document, with one separator between two
\* consecutive documents and none before the first.
C7_OrderAndSeparators ==
    ret = "nil" =>
        /\ emitted = Ascending(DocItems)
        /\ Len(outw) = (IF Len(emitted) = 0 THEN 0 ELSE 2 * Len(emitted) - 1)
        /\ \A j \in 1..Len(emitted) :
              /\ outw[2 * j - 1].c = "doc"
              /\ outw[2 * j - 1].obj \in
                     { s.o : s \in findAndReplaceTag(imgmap, input[emitted[j]].obj) }
              /\ j > 1 => outw[2 * j - 2] = Sep

\* witness of C7: a successful call that wrote two documents
C7_Witness == ret = "nil" /\ Len(emitted) >= 2 /\ Len(OutSeps) = 1

----------------------------------------------------------------------------
(* The release-train loop of main (SpecTrains) *)

MaxTargets == 2
MaxPrev == 2

TrainNames == {"t1", "t2"}
\* the targets of this run, and a target only an earlier run had
Targets == {"A", "B"}
EarlierTargets == Targets \cup {"C"}

\* the lists of at most n distinct targets of S (a query result or a
\* generated message names a target once)
ListsUpTo(S, n) ==
    UNION { { l \in [1..k -> S] : \A i, j \in 1..k : l[i] = l[j] => i = j } : k \in 0..n }
TargetLists == ListsUpTo(Targets, MaxTargets) \ {<<>>}

\* commitmsg.Generate(targets) and commitmsg.ExtractTargets(msg): the
\* message embeds the target list and the list is read back from it
Generate(targets) == [embedded |-> targets]
ExtractTargets(msg) == msg.embedded

\* the last commit of the PR target branch embeds no target list
BaseMessage == [embedded |-> <<>>]

NoBranch == [exists |-> FALSE, msg |-> BaseMessage]
Branch(msg) == [exists |-> TRUE, msg |-> msg]

\* the state when main enters the loop over the trains: the checkout is
\* cloned; a deployment branch of an earlier run carries the list of that run
TrainsInit ==
    /\ \E T \in SUBSET TrainNames :
          /\ T # {}
          /\ trains \in [T -> TargetLists]
          /\ branches \in [T -> {NoBranch} \cup { Branch(Generate(l)) : l \in ListsUpTo(EarlierTargets, MaxPrev) }]
          /\ todo = T
          /\ recreated = [t \in T |-> 0]
          /\ existed = [t \in T |-> FALSE]
          /\ prevList = [t \in T |-> <<>>]
    /\ cur = NoTrain /\ tpc = "loop"
    /\ ResolveIdle /\ NameIdle /\ PushIdle /\ FilesIdle /\ CheckoutIdle /\ HostIdle /\ RunIdle

\* workdir.SwitchToBranch(branch, cfg.PRTargetBranch): true when the branch
\* did not exist and was created from the target branch
SwitchToBranch(b) == ~b.exists

\* the next train of the range loop: the branch is switched to, or created
SelectBranch ==
    /\ tpc = "loop"
    /\ \E t \in todo :
          /\ cur' = t
          /\ todo' = todo \ {t}
          /\ existed' = [existed EXCEPT ![t] = branches[t].exists]
          /\ IF SwitchToBranch(branches[t])
             THEN /\ branches' = [branches EXCEPT ![t] = Branch(BaseMessage)]
                  /\ tpc' = "exec"
                  /\ UNCHANGED prevList
             ELSE /\ prevList' = [prevList EXCEPT ![t] = ExtractTargets(branches[t].msg)]
                  /\ tpc' = "check"
                  /\ UNCHANGED branches
    /\ UNCHANGED <<trains, recreated>>
    /\ UNCHANGED <<rvars, nvars, pvars, gvars, wvars, fvars, hvars, cvars, mvars>>

\* currentTargets: the set of the train's targets
CurrentTargets(targets) == { targets[i] : i \in 1..Len(targets) }

\* a loop over the previous targets that recreates at every missing one
RECURSIVE RecreateLoopNoBreak(_, _, _)
RecreateLoopNoBreak(prev, targets, i) ==
    IF i > Len(prev) THEN 0
    ELSE IF prev[i] \notin CurrentTargets(targets)
    THEN 1 + RecreateLoopNoBreak(prev, targets, i + 1)
    ELSE RecreateLoopNoBreak(prev, targets, i + 1)

\* the loop over commitmsg.ExtractTargets(msg) from element i on: the number
\* of RecreateBranch calls it makes (it breaks after the first)
RECURSIVE RecreateLoop(_, _, _)
RecreateLoop(prev, targets, i) ==
    IF i > Len(prev) THEN 0
    ELSE IF prev[i] \notin CurrentTargets(targets) THEN 1
    ELSE RecreateLoop(prev, targets, i + 1)

\* the branch existed: RecreateBranch if a target of its last commit is gone
CheckDeleted ==
    /\ tpc = "check"
    /\ LET n == RecreateLoop(ExtractTargets(branches[cur].msg), trains[cur], 1) IN
          /\ recreated' = [recreated EXCEPT ![cur] = @ + n]
          /\ branches' = IF n > 0 THEN [branches EXCEPT ![cur] = Branch(BaseMessage)]
                         ELSE branches
    /\ tpc' = "exec"
    /\ UNCHANGED <<trains, todo, cur, existed, prevList>>
    /\ UNCHANGED <<rvars, nvars, pvars, gvars, wvars, fvars, hvars, cvars, mvars>>

\* exec.Mustex(dir, cmd): the command ran, or the process is terminated
Mustex(ok) == IF ok THEN "ok" ELSE "fatal"

\* every target executable of the train is run with --nopush
RunTargets ==
    /\ tpc = "exec"
    /\ \E ok \in BOOLEAN : tpc' = (IF Mustex(ok) = "ok" THEN "diff" ELSE "fatal")
    /\ UNCHANGED <<trains, branches, todo, cur, recreated, existed, prevList>>
    /\ UNCHANGED <<rvars, nvars, pvars, gvars, wvars, fvars, hvars, cvars, mvars>>

\* workdir.GetModifiedFiles(): an error is fatal
GetModifiedFiles ==
    /\ tpc = "diff"
    /\ \E ok \in BOOLEAN : tpc' = (IF ok THEN "commit" ELSE "fatal")
    /\ UNCHANGED <<trains, branches, todo, cur, recreated, existed, prevList>>
    /\ UNCHANGED <<rvars, nvars, pvars, gvars, wvars, fvars, hvars, cvars, mvars>>

\* workdir.Commit(commitMsg, cfg.GitOpsPath): true when there were changes,
\* and the branch then ends with a commit that embeds the train's targets
Commit ==
    /\ tpc = "commit"
    /\ \E changed \in BOOLEAN :
          branches' = IF changed THEN [branches EXCEPT ![cur] = Branch(Generate(trains[cur]))]
                      ELSE branches
    /\ cur' = NoTrain
    /\ tpc' = "loop"
    /\ UNCHANGED <<trains, todo, recreated, existed, prevList>>
    /\ UNCHANGED <<rvars, nvars, pvars, gvars, wvars, fvars, hvars, cvars, mvars>>

\* the range loop is over
LoopEnd ==
    /\ tpc = "loop" /\ todo = {}
    /\ tpc' = "done"
    /\ UNCHANGED <<trains, branches, todo, cur, recreated, existed, prevList>>
    /\ UNCHANGED <<rvars, nvars, pvars, gvars, wvars, fvars, hvars, cvars, mvars>>

TrainsNext ==
    \/ SelectBranch \/ CheckDeleted \/ RunTargets \/ GetModifiedFiles \/ Commit \/ LoopEnd

SpecTrains == TrainsInit /\ [][TrainsNext]_vars

\* the train is past its branch selection
Selected(t) == t \in DOMAIN trains /\ t \notin todo /\ ~(cur = t /\ tpc = "check")

\* C8: for a train whose deployment branch existed, RecreateBranch is called
\* exactly when the target list of the branch's last commit has a target
\* that is not among the train's targets, and then once; it is not called
\* for a branch that did not exist.
C8_RecreateIffDeleted ==
    \A t \in DOMAIN trains :
        Selected(t) =>
            /\ recreated[t] <= 1
            /\ recreated[t] = 1 <=>
                   ( /\ existed[t]
                     /\ \E i \in 1..Len(prevList[t]) :
                            prevList[t][i] \notin CurrentTargets(trains[t]) )

\* witness of C8: a branch recreated once although two of its previous
\* targets are gone, and another train whose branch was kept
C8_Witness ==
    /\ tpc = "done"
    /\ \E t \in DOMAIN trains :
          /\ recreated[t] = 1
          /\ Cardinality({ i \in 1..Len(prevList[t]) :
                               prevList[t][i] \notin CurrentTargets(trains[t]) }) >= 2
    /\ \E t \in DOMAIN trains : existed[t] /\ recreated[t] = 0 /\ Len(prevList[t]) > 0

----------------------------------------------------------------------------
(* The push coordinator: processResolvedImages, and the same pool of
   processImages (SpecPush, FairSpecPush) *)

MaxPar == 2
MaxCmds == 3

\* the -push_parallelism values: any int the flag parses, from -1 on
Parallelisms == (0 - 1)..MaxPar

\* the state at the call: cmds[i] tells whether command i succeeds
PushInit ==
    /\ parN \in Parallelisms
    /\ \E k \in 0..MaxCmds : cmds \in [1..k -> BOOLEAN]
    /\ sent = 0 /\ chClosed = FALSE /\ wstate = <<>> /\ wcmd = <<>>
    /\ execCount = [i \in 1..Len(cmds) |-> 0]
    /\ finished = [i \in 1..Len(cmds) |-> FALSE]
    /\ wgCount = 0 /\ ppc = "init"
    /\ ResolveIdle /\ NameIdle /\ TrainsIdle /\ FilesIdle /\ CheckoutIdle /\ HostIdle /\ RunIdle

\* the process is running (no log.Fatal, no panic)
Alive == ppc \in {"init", "send", "wait", "returned"}

\* the number of goroutines the loop `for i := 0; i < n; i++` starts
SpawnCount(n) == IF n > 0 THEN n ELSE 0

\* wg.Add(n) with a negative n panics: negative WaitGroup counter
StartPanics ==
    /\ ppc = "init" /\ parN < 0
    /\ ppc' = "panic"
    /\ UNCHANGED <<parN, cmds, sent, chClosed, wstate, wcmd, execCount, finished, wgCount>>
    /\ UNCHANGED <<rvars, nvars, tvars, gvars, wvars, fvars, hvars, cvars, mvars>>

\* make(chan string), wg.Add(n), and the workers are started
Start ==
    /\ ppc = "init" /\ parN >= 0
    /\ wgCount' = parN
    /\ wstate' = [w \in 1..SpawnCount(parN) |-> "idle"]
    /\ wcmd' = [w \in 1..SpawnCount(parN) |-> 0]
    /\ ppc' = "send"
    /\ UNCHANGED <<parN, cmds, sent, chClosed, execCount, finished>>
    /\ UNCHANGED <<rvars, nvars, tvars, gvars, wvars, fvars, hvars, cvars, mvars>>

\* resolvedPushChan <- r meets a worker's receive (the channel is
\* unbuffered), and the worker starts the command
Send ==
    /\ ppc = "send" /\ sent < Len(cmds)
    /\ \E w \in DOMAIN wstate :
          /\ wstate[w] = "idle"
          /\ wstate' = [wstate EXCEPT ![w] = "busy"]
          /\ wcmd' = [wcmd EXCEPT ![w] = sent + 1]
    /\ sent' = sent + 1
    /\ execCount' = [execCount EXCEPT ![sent + 1] = @ + 1]
    /\ UNCHANGED <<parN, cmds, chClosed, finished, wgCount, ppc>>
    /\ UNCHANGED <<rvars, nvars, tvars, gvars, wvars, fvars, hvars, cvars, mvars>>

\* a producer that never closes the channel
CloseChannelForgotten(closed) == closed

\* close(resolvedPushChan)
CloseChannel(closed) == TRUE

\* every command is handed over: the channel is closed and wg.Wait() begins
Close ==
    /\ ppc = "send" /\ sent = Len(cmds)
    /\ chClosed' = CloseChannel(chClosed)
    /\ ppc' = "wait"
    /\ UNCHANGED <<parN, cmds, sent, wstate, wcmd, execCount, finished, wgCount>>
    /\ UNCHANGED <<rvars, nvars, tvars, gvars, wvars, fvars, hvars, cvars, mvars>>

\* the command of worker w ends and exec.Mustex returns
CommandEnds(w) ==
    /\ Alive /\ wstate[w] = "busy" /\ Mustex(cmds[wcmd[w]]) = "ok"
    /\ finished' = [finished EXCEPT ![wcmd[w]] = TRUE]
    /\ wstate' = [wstate EXCEPT ![w] = "idle"]
    /\ UNCHANGED <<parN, cmds, sent, chClosed, wcmd, execCount, wgCount, ppc>>
    /\ UNCHANGED <<rvars, nvars, tvars, gvars, wvars, fvars, hvars, cvars, mvars>>

\* the command of worker w fails and exec.Mustex ends the process
CommandFails(w) ==
    /\ Alive /\ wstate[w] = "busy" /\ Mustex(cmds[wcmd[w]]) = "fatal"
    /\ ppc' = "fatal"
    /\ UNCHANGED <<parN, cmds, sent, chClosed, wstate, wcmd, execCount, finished, wgCount>>
    /\ UNCHANGED <<rvars, nvars, tvars, gvars, wvars, fvars, hvars, cvars, mvars>>

\* worker w finds the channel closed: its range loop ends, defer wg.Done()
WorkerExit(w) ==
    /\ Alive /\ wstate[w] = "idle" /\ chClosed
    /\ wstate' = [wstate EXCEPT ![w] = "done"]
    /\ wgCount' = wgCount - 1
    /\ UNCHANGED <<parN, cmds, sent, chClosed, wcmd, execCount, finished, ppc>>
    /\ UNCHANGED <<rvars, nvars, tvars, gvars, wvars, fvars, hvars, cvars, mvars>>

\* a wait that does not wait
WaitReturnsAtOnce(count) == TRUE

\* wg.Wait() returns when the counter is zero
WaitReturns(count) == count = 0

Return ==
    /\ ppc = "wait" /\ WaitReturns(wgCount)
    /\ ppc' = "returned"
    /\ UNCHANGED <<parN, cmds, sent, chClosed, wstate, wcmd, execCount, finished, wgCount>>
    /\ UNCHANGED <<rvars, nvars, tvars, gvars, wvars, fvars, hvars, cvars, mvars>>

PushNext ==
    \/ StartPanics \/ Start \/ Send \/ Close \/ Return
    \/ \E w \in DOMAIN wstate : CommandEnds(w)
    \/ \E w \in DOMAIN wstate : CommandFails(w)
    \/ \E w \in DOMAIN wstate : WorkerExit(w)

SpecPush == PushInit /\ [][PushNext]_vars

\* the Go scheduler runs a goroutine that can run, and the commands end
FairSpecPush == PushInit /\ [][PushNext]_vars /\ WF_vars(PushNext)

InFlight == { w \in DOMAIN wstate : wstate[w] = "busy" }

\* C9: with a parallelism bound N >= 1, no command is started twice, at most
\* N commands are in flight, and the coordinator has returned only if every
\* command was started once and has finished.
C9_BoundedPool ==
    parN >= 1 =>
        /\ \A c \in 1..Len(cmds) : execCount[c] <= 1
        /\ Cardinality(InFlight) <= parN
        /\ ppc = "returned" =>
               \A c \in 1..Len(cmds) : execCount[c] = 1 /\ finished[c]

\* witness of C9: the coordinator returned after more commands than workers,
\* and the pool is seen full
C9_Witness == ppc = "returned" /\ parN >= 2 /\ Len(cmds) > parN

AllSucceed == \A c \in 1..Len(cmds) : cmds[c]

\* C10 as stated: for every parallelism bound and every list of commands
\* that succeed, the coordinator does not stop before it has returned.
C10_AlwaysReturns == AllSucceed => (ppc = "returned" \/ ENABLED PushNext)

\* C10 amended: for every parallelism bound N >= 1 and every list of
\* commands that succeed, the coordinator eventually returns with every
\* command finished.
C10_ReturnsIfWorkers ==
    (AllSucceed /\ parN >= 1) =>
        <>(ppc = "returned" /\ \A c \in 1..Len(cmds) : finished[c])

\* witness of C10: returned with N >= 1 after commands that all succeeded
C10_Witness == ppc = "returned" /\ parN >= 1 /\ AllSucceed /\ Len(cmds) >= 2

----------------------------------------------------------------------------
(* github_app.CreatePR, as createPullRequests calls it (SpecCreatePR) *)

\* what the provider can answer to a create request: the merge request was
\* created; it is refused because one exists for the branch pair already; it
\* is refused as invalid for another reason; the request is denied
Responses == {"created", "exists", "invalid", "denied"}

\* the HTTP status of an answer
StatusOf(resp) ==
    CASE resp = "created" -> "Created"
      [] resp = "exists"  -> "UnprocessableEntity"
      [] resp = "invalid" -> "UnprocessableEntity"
      [] OTHER            -> "Forbidden"

\* err of gh.PullRequests.Create is nil
CreateErrNil(resp) == StatusOf(resp) = "Created"

ReusesExistingNever(resp) == FALSE

\* resp.StatusCode == http.StatusUnprocessableEntity: "Reusing existing PR"
ReusesExisting(resp) == StatusOf(resp) = "UnprocessableEntity"

CreatePRInit ==
    /\ repoOwner \in BOOLEAN /\ repo \in BOOLEAN /\ gitHubAppId \in BOOLEAN
    /\ keyOk \in BOOLEAN /\ githubEnterpriseHost \in BOOLEAN
    /\ entClientOk \in BOOLEAN
    /\ prResp \in Responses
    /\ prpc = "call" /\ prRet = "none" /\ prCreates = 0
    /\ ResolveIdle /\ NameIdle /\ TrainsIdle /\ FilesIdle /\ CheckoutIdle /\ PushIdle /\ CommitIdle /\ RunIdle

\* the three flag checks at the head of CreatePR
PRCheckFlags ==
    /\ prpc = "call"
    /\ IF repoOwner /\ repo /\ gitHubAppId
       THEN prpc' = "key" /\ UNCHANGED prRet
       ELSE prpc' = "returned" /\ prRet' = "err"
    /\ UNCHANGED <<entClientOk, prResp, prCreates>>
    /\ UNCHANGED <<rvars, nvars, tvars, pvars, gvars, wvars, fvars, cvars, mvars>>

\* ghinstallation.NewKeyFromFile
PRReadKey ==
    /\ prpc = "key"
    /\ IF keyOk
       THEN prpc' = "client" /\ UNCHANGED prRet
       ELSE prpc' = "returned" /\ prRet' = "err"
    /\ UNCHANGED <<entClientOk, prResp, prCreates>>
    /\ UNCHANGED <<rvars, nvars, tvars, pvars, gvars, wvars, fvars, cvars, mvars>>

\* the client: the enterprise client when a host is configured (its failure
\* is logged and CreatePR returns nil), the public client otherwise
PRMakeClient ==
    /\ prpc = "client"
    /\ IF githubEnterpriseHost /\ ~entClientOk
       THEN prpc' = "returned" /\ prRet' = "nil"
       ELSE prpc' = "create" /\ UNCHANGED prRet
    /\ UNCHANGED <<entClientOk, prResp, prCreates>>
    /\ UNCHANGED <<rvars, nvars, tvars, pvars, gvars, wvars, fvars, cvars, mvars>>

\* gh.PullRequests.Create and the handling of its answer
PRCreate ==
    /\ prpc = "create"
    /\ prCreates' = prCreates + 1
    /\ prpc' = "returned"
    /\ prRet' = IF CreateErrNil(prResp) THEN "nil"
                ELSE IF ReusesExisting(prResp) THEN "nil"
                ELSE "err"
    /\ UNCHANGED <<entClientOk, prResp>>
    /\ UNCHANGED <<rvars, nvars, tvars, pvars, gvars, wvars, fvars, cvars, mvars>>

\* createPullRequests: an error of CreatePR is fatal (log.Fatalf)
PRCaller ==
    /\ prpc = "returned"
    /\ prpc' = IF prRet = "err" THEN "fatal" ELSE "continue"
    /\ UNCHANGED <<entClientOk, prResp, prRet, prCreates>>
    /\ UNCHANGED <<rvars, nvars, tvars, pvars, gvars, wvars, fvars, cvars, mvars>>

CreatePRNext == PRCheckFlags \/ PRReadKey \/ PRMakeClient \/ PRCreate \/ PRCaller

SpecCreatePR == CreatePRInit /\ [][CreatePRNext]_vars

\* CreatePR has returned to its caller
PRReturned == prpc \in {"returned", "continue", "fatal"}

\* C11: when the provider answers the create request with its already-exists
\* conflict, CreatePR returns nil; CreatePR never sends a second create
\* request.
C11_ConflictIsSuccess ==
    /\ prCreates <= 1
    /\ (PRReturned /\ prCreates = 1 /\ prResp = "exists") => prRet = "nil"

\* witness of C11: CreatePR returned after the provider answered "exists"
C11_Witness == PRReturned /\ prCreates = 1 /\ prResp = "exists" /\ prRet = "nil"

\* C13: CreatePR returns nil only when the merge request was created or the
\* provider reported that it exists already; after any other failure it
\* returns an error, and the caller ends the run.
C13_SuccessOnlyIfCreatedOrExists ==
    /\ prRet = "nil" => (prCreates = 1 /\ prResp \in {"created", "exists"})
    /\ prpc = "fatal" => prRet = "err"
    /\ prpc = "continue" => prRet = "nil"

----------------------------------------------------------------------------
(* github_app.CreateCommit (SpecCreateCommit) *)

\* the hosting-API calls of CreateCommit
ApiCalls == {"GetRef", "CreateRef", "CreateTree", "GetCommit", "CreateCommit",
             "UpdateRef", "CreatePR"}

CreateCommitInit ==
    /\ repoOwner \in BOOLEAN /\ repo \in BOOLEAN /\ gitHubAppId \in BOOLEAN
    /\ keyOk \in BOOLEAN /\ githubEnterpriseHost = FALSE
    /\ ccFilesOk \in BOOLEAN /\ refExists \in BOOLEAN /\ prExists \in BOOLEAN
    /\ apiFail \in ApiCalls \cup {"none"}
    /\ calls = <<>>
    /\ hostBranch = (IF refExists THEN "old" ELSE "absent")
    /\ ccpc = "client"
    /\ ResolveIdle /\ NameIdle /\ TrainsIdle /\ FilesIdle /\ CheckoutIdle /\ PushIdle /\ CreatePRIdle /\ RunIdle

\* a call that is rejected only for the reason in apiFail
IssueAccepted(name, refused, next) ==
    /\ calls' = Append(calls, name)
    /\ ccpc' = IF apiFail = name THEN "fatal" ELSE next

\* a call whose rejection is not looked at
IssueUnchecked(name, refused, next) ==
    /\ calls' = Append(calls, name)
    /\ ccpc' = next

\* the call `name` is issued; the host rejects it when `refused`
Issue(name, refused, next) ==
    /\ calls' = Append(calls, name)
    /\ ccpc' = IF refused \/ apiFail = name THEN "fatal" ELSE next

\* createGithubClient: a missing flag or an unreadable key is fatal
CCClient ==
    /\ ccpc = "client"
    /\ ccpc' = IF repoOwner /\ repo /\ gitHubAppId /\ keyOk THEN "files" ELSE "fatal"
    /\ UNCHANGED <<ccFilesOk, refExists, prExists, apiFail, calls, hostBranch>>
    /\ UNCHANGED <<rvars, nvars, tvars, pvars, gvars, wvars, fvars, hvars, mvars>>

\* getFilesToCommit: a path that does not exist is fatal
CCFiles ==
    /\ ccpc = "files"
    /\ ccpc' = IF ccFilesOk THEN "getref" ELSE "fatal"
    /\ UNCHANGED <<ccFilesOk, refExists, prExists, apiFail, calls, hostBranch>>
    /\ UNCHANGED <<rvars, nvars, tvars, pvars, gvars, wvars, fvars, hvars, mvars>>

\* getRef: read the head of the base branch
CCGetRef ==
    /\ ccpc = "getref"
    /\ Issue("GetRef", FALSE, "createref")
    /\ UNCHANGED <<ccFilesOk, refExists, prExists, apiFail, hostBranch>>
    /\ UNCHANGED <<rvars, nvars, tvars, pvars, gvars, wvars, fvars, hvars, mvars>>

\* getRef: create the commit branch at that head; refused when it exists
CCCreateRef ==
    /\ ccpc = "createref"
    /\ Issue("CreateRef", refExists, "tree")
    /\ hostBranch' = IF refExists \/ apiFail = "CreateRef" THEN hostBranch ELSE "base"
    /\ UNCHANGED <<ccFilesOk, refExists, prExists, apiFail>>
    /\ UNCHANGED <<rvars, nvars, tvars, pvars, gvars, wvars, fvars, hvars, mvars>>

\* getTree
CCCreateTree ==
    /\ ccpc = "tree"
    /\ Issue("CreateTree", FALSE, "getcommit")
    /\ UNCHANGED <<ccFilesOk, refExists, prExists, apiFail, hostBranch>>
    /\ UNCHANGED <<rvars, nvars, tvars, pvars, gvars, wvars, fvars, hvars, mvars>>

\* pushCommit: read the parent commit
CCGetCommit ==
    /\ ccpc = "getcommit"
    /\ Issue("GetCommit", FALSE, "commit")
    /\ UNCHANGED <<ccFilesOk, refExists, prExists, apiFail, hostBranch>>
    /\ UNCHANGED <<rvars, nvars, tvars, pvars, gvars, wvars, fvars, hvars, mvars>>

\* pushCommit: create the commit
CCCommit ==
    /\ ccpc = "commit"
    /\ Issue("CreateCommit", FALSE, "updateref")
    /\ UNCHANGED <<ccFilesOk, refExists, prExists, apiFail, hostBranch>>
    /\ UNCHANGED <<rvars, nvars, tvars, pvars, gvars, wvars, fvars, hvars, mvars>>

\* pushCommit: advance the commit branch to the new commit
CCUpdateRef ==
    /\ ccpc = "updateref"
    /\ Issue("UpdateRef", FALSE, "createpr")
    /\ hostBranch' = IF apiFail = "UpdateRef" THEN hostBranch ELSE "new"
    /\ UNCHANGED <<ccFilesOk, refExists, prExists, apiFail>>
    /\ UNCHANGED <<rvars, nvars, tvars, pvars, gvars, wvars, fvars, hvars, mvars>>

\* createPR: any error of gh.PullRequests.Create is fatal; the provider
\* refuses the request when a merge request for the pair exists
CCCreatePR ==
    /\ ccpc = "createpr"
    /\ Issue("CreatePR", prExists, "returned")
    /\ UNCHANGED <<ccFilesOk, refExists, prExists, apiFail, hostBranch>>
    /\ UNCHANGED <<rvars, nvars, tvars, pvars, gvars, wvars, fvars, hvars, mvars>>

CreateCommitNext ==
    \/ CCClient \/ CCFiles \/ CCGetRef \/ CCCreateRef \/ CCCreateTree
    \/ CCGetCommit \/ CCCommit \/ CCUpdateRef \/ CCCreatePR

SpecCreateCommit == CreateCommitInit /\ [][CreateCommitNext]_vars

\* the merge-request step of CreateCommit has been taken
PRStepTaken == calls # <<>> /\ calls[Len(calls)] = "CreatePR"

\* C12: when a merge request for the branch pair exists already, the last
\* step of CreateCommit succeeds and CreateCommit returns: the existing merge
\* request is reused as CreatePR reuses it.
C12_CommitPathReusesPR ==
    (prExists /\ apiFail = "none" /\ PRStepTaken) => ccpc = "returned"

----------------------------------------------------------------------------
(* One run of main, from the flags to the exit of the process (SpecRun).   *)
(* Every train has one target here (the loops over the targets of a train  *)
(* are in SpecTrains), so updatedTargets is empty exactly when             *)
(* updatedBranches is; the push commands run one after the other (the pool *)
(* is in SpecPush).                                                        *)

MaxRunPushes == 2

\* values of -git_server: the four keys of servers, and any other string
Hosts == {"github", "gitlab", "bitbucket", "github_app", "other"}
Servers == {"github", "gitlab", "bitbucket", "github_app"}

\* fmt.Sprintf("deploy/%s%s", train, cfg.DeploymentBranchSuffix)
DeployBranch(t) == <<"deploy", t>>
\* cfg.BranchName
BranchName == <<"cfg", "BranchName">>
\* a merge request creation from a branch into cfg.PRTargetBranch
Request(from) == [from |-> from, to |-> "PRTargetBranch"]

RunInit ==
    /\ GitHost \in Hosts /\ DryRun \in BOOLEAN
    /\ ResolvedBinaries \in BOOLEAN /\ ResolvedPushes \in BOOLEAN
    /\ pushCmds \in 0..MaxRunPushes
    /\ ResolvedPushes => pushCmds >= 1
    /\ shaLong \in BOOLEAN
    /\ runTrains \in SUBSET TrainNames
    /\ ResolvedBinaries => runTrains # {}
    /\ repoOwner \in BOOLEAN /\ repo = TRUE /\ gitHubAppId = TRUE
    /\ keyOk \in BOOLEAN /\ githubEnterpriseHost = FALSE
    /\ GitHost # "github_app" => (repoOwner /\ keyOk)
    /\ mpc = "chdir" /\ cause = "none" /\ tmpDir = "none" /\ cloned = FALSE
    /\ mtodo = {} /\ mcur = NoTrain /\ switched = {} /\ committed = {}
    /\ updatedBranches = <<>>
    /\ execs = [t \in runTrains |-> 0]
    /\ pushExecs = [i \in 1..pushCmds |-> 0]
    /\ queries = <<>> /\ pushedBranches = <<>> /\ prRequests = <<>>
    /\ apiCommits = 0
    /\ ResolveIdle /\ NameIdle /\ TrainsIdle /\ FilesIdle /\ CheckoutIdle /\ PushIdle
    /\ CreatePRIdle /\ CommitIdle

\* log.Fatal, log.Fatalf and exec.Mustex on failure: os.Exit(1); deferred
\* calls do not run
Fatalf(c) == mpc' = "fatal" /\ cause' = c /\ tmpDir' = tmpDir
\* main returns: the deferred os.RemoveAll(gitopsDir) runs if it was registered
ReturnFromMain ==
    /\ mpc' = "exit" /\ cause' = cause
    /\ tmpDir' = (IF tmpDir = "present" THEN "removed" ELSE tmpDir)
\* a slice expression that does not check its bounds: main goes on to the
\* push of the branches
SliceUnchecked == mpc' = "gitpush" /\ cause' = cause /\ tmpDir' = tmpDir

\* a run-time panic: the deferred calls run, then the process dies
Panics ==
    /\ mpc' = "panic" /\ cause' = "panic"
    /\ tmpDir' = (IF tmpDir = "present" THEN "removed" ELSE tmpDir)
\* a control flow in which the commit follows the executables at once
GotoPastDiff(l) ==
    mpc' = (IF l = "diff" THEN "commit" ELSE l) /\ cause' = cause /\ tmpDir' = tmpDir

Goto(l) == mpc' = l /\ cause' = cause /\ tmpDir' = tmpDir

\* executeBazelQuery: the query is run; its failure is fatal
Query(purpose, ok, next) ==
    /\ queries' = Append(queries, purpose)
    /\ IF ok THEN Goto(next) ELSE Fatalf("query")

ExecutedTwice(n) == n + 2

\* one more execution of a command
Executed(n) == n + 1

\* os.Chdir(cfg.Workspace)
Chdir ==
    /\ mpc = "chdir"
    /\ \E ok \in BOOLEAN : IF ok THEN Goto("find") ELSE Fatalf("chdir")
    /\ UNCHANGED <<mcfg, cloned, mtodo, mcur, switched, committed, updatedBranches,
                   execs, pushExecs, queries, pushedBranches, prRequests, apiCommits>>
    /\ UNCHANGED <<rvars, nvars, tvars, pvars, gvars, wvars, fvars, hvars, cvars>>

\* the trains: from the resolved binaries, or from the build-graph query;
\* no train: "No matching targets found", return
FindTrains ==
    /\ mpc = "find"
    /\ \E ok \in BOOLEAN :
         LET next == IF runTrains = {} THEN "nomatch" ELSE "mktemp"
         IN IF ResolvedBinaries
            THEN /\ IF ok THEN Goto(next) ELSE Fatalf("format")
                 /\ UNCHANGED queries
            ELSE Query("trains", ok, next)
    /\ UNCHANGED <<mcfg, cloned, mtodo, mcur, switched, committed, updatedBranches,
                   execs, pushExecs, pushedBranches, prRequests, apiCommits>>
    /\ UNCHANGED <<rvars, nvars, tvars, pvars, gvars, wvars, fvars, hvars, cvars>>

\* len(trains) == 0: return
NoMatch ==
    /\ mpc = "nomatch"
    /\ ReturnFromMain
    /\ UNCHANGED <<mcfg, cloned, mtodo, mcur, switched, committed, updatedBranches,
                   execs, pushExecs, queries, pushedBranches, prRequests, apiCommits>>
    /\ UNCHANGED <<rvars, nvars, tvars, pvars, gvars, wvars, fvars, hvars, cvars>>

\* os.MkdirTemp and defer os.RemoveAll(gitopsDir)
MkdirTemp ==
    /\ mpc = "mktemp"
    /\ \E ok \in BOOLEAN :
         IF ok THEN mpc' = "clone" /\ cause' = cause /\ tmpDir' = "present"
         ELSE Fatalf("mktemp")
    /\ UNCHANGED <<mcfg, cloned, mtodo, mcur, switched, committed, updatedBranches,
                   execs, pushExecs, queries, pushedBranches, prRequests, apiCommits>>
    /\ UNCHANGED <<rvars, nvars, tvars, pvars, gvars, wvars, fvars, hvars, cvars>>

\* git.Clone
Clone ==
    /\ mpc = "clone"
    /\ \E ok \in BOOLEAN :
         IF ok THEN Goto("loop") /\ cloned' = TRUE /\ mtodo' = runTrains
         ELSE Fatalf("clone") /\ UNCHANGED <<cloned, mtodo>>
    /\ UNCHANGED <<mcfg, mcur, switched, committed, updatedBranches,
                   execs, pushExecs, queries, pushedBranches, prRequests, apiCommits>>
    /\ UNCHANGED <<rvars, nvars, tvars, pvars, gvars, wvars, fvars, hvars, cvars>>

\* the range loop picks a train and selects its branch (switch or create,
\* recreation check); after the last train the loop ends
SelectTrain ==
    /\ mpc = "loop"
    /\ IF mtodo = {}
       THEN Goto("decide") /\ mcur' = NoTrain /\ UNCHANGED <<mtodo, switched>>
       ELSE \E t \in mtodo :
              /\ Goto("exec") /\ mcur' = t /\ mtodo' = mtodo \ {t}
              /\ switched' = switched \cup {t}
    /\ UNCHANGED <<mcfg, cloned, committed, updatedBranches,
                   execs, pushExecs, queries, pushedBranches, prRequests, apiCommits>>
    /\ UNCHANGED <<rvars, nvars, tvars, pvars, gvars, wvars, fvars, hvars, cvars>>

\* exec.Mustex(bin, "--nopush", ...) of the train's target
RunTarget ==
    /\ mpc = "exec"
    /\ execs' = [execs EXCEPT ![mcur] = Executed(@)]
    /\ \E ok \in BOOLEAN :
         IF Mustex(ok) = "ok" THEN Goto("diff") ELSE Fatalf("exec")
    /\ UNCHANGED <<mcfg, cloned, mtodo, mcur, switched, committed, updatedBranches,
                   pushExecs, queries, pushedBranches, prRequests, apiCommits>>
    /\ UNCHANGED <<rvars, nvars, tvars, pvars, gvars, wvars, fvars, hvars, cvars>>

\* workdir.GetModifiedFiles
ModifiedFiles ==
    /\ mpc = "diff"
    /\ \E ok \in BOOLEAN : IF ok THEN Goto("commit") ELSE Fatalf("diff")
    /\ UNCHANGED <<mcfg, cloned, mtodo, mcur, switched, committed, updatedBranches,
                   execs, pushExecs, queries, pushedBranches, prRequests, apiCommits>>
    /\ UNCHANGED <<rvars, nvars, tvars, pvars, gvars, wvars, fvars, hvars, cvars>>

\* workdir.Commit: TRUE when the branch has changes
CommitTrain ==
    /\ mpc = "commit"
    /\ committed' = committed \cup {mcur}
    /\ \E changed \in BOOLEAN :
         updatedBranches' = IF changed THEN Append(updatedBranches, mcur)
                            ELSE updatedBranches
    /\ Goto("loop")
    /\ UNCHANGED <<mcfg, cloned, mtodo, mcur, switched,
                   execs, pushExecs, queries, pushedBranches, prRequests, apiCommits>>
    /\ UNCHANGED <<rvars, nvars, tvars, pvars, gvars, wvars, fvars, hvars, cvars>>

NoChangesNever(updated) == FALSE

\* len(updatedTargets) == 0
NoChanges(updated) == Len(updated) = 0

\* after the loop: "No GitOps changes to push", return; else the push phase,
\* with the supplied push commands or with those the query finds
Decide ==
    /\ mpc = "decide"
    /\ IF NoChanges(updatedBranches)
       THEN ReturnFromMain /\ UNCHANGED queries
       ELSE IF ResolvedPushes
       THEN Goto("push") /\ UNCHANGED queries
       ELSE \E ok \in BOOLEAN : Query("push", ok, "push")
    /\ UNCHANGED <<mcfg, cloned, mtodo, mcur, switched, committed, updatedBranches,
                   execs, pushExecs, pushedBranches, prRequests, apiCommits>>
    /\ UNCHANGED <<rvars, nvars, tvars, pvars, gvars, wvars, fvars, hvars, cvars>>

\* the push commands that have been run
Pushed == { i \in DOMAIN pushExecs : pushExecs[i] > 0 }

\* a worker runs the next push command: exec.Mustex
PushCommand ==
    /\ mpc = "push"
    /\ Cardinality(Pushed) < pushCmds
    /\ LET i == Cardinality(Pushed) + 1
       IN pushExecs' = [pushExecs EXCEPT ![i] = Executed(@)]
    /\ \E ok \in BOOLEAN :
         IF Mustex(ok) = "ok" THEN Goto("push") ELSE Fatalf("pushcmd")
    /\ UNCHANGED <<mcfg, cloned, mtodo, mcur, switched, committed, updatedBranches,
                   execs, queries, pushedBranches, prRequests, apiCommits>>
    /\ UNCHANGED <<rvars, nvars, tvars, pvars, gvars, wvars, fvars, hvars, cvars>>

\* the push phase returns; `if !cfg.DryRun`: in a dry run main returns, else
\* sha[:7] (a panic for a shorter value) and the switch on cfg.GitHost
Publish ==
    /\ mpc = "push"
    /\ Cardinality(Pushed) = pushCmds
    /\ IF DryRun THEN ReturnFromMain
       ELSE IF ~shaLong THEN Panics
       ELSE IF GitHost = "github_app" THEN Goto("apicommit")
       ELSE Goto("gitpush")
    /\ UNCHANGED <<mcfg, cloned, mtodo, mcur, switched, committed, updatedBranches,
                   execs, pushExecs, queries, pushedBranches, prRequests, apiCommits>>
    /\ UNCHANGED <<rvars, nvars, tvars, pvars, gvars, wvars, fvars, hvars, cvars>>

\* case "github_app": github_app.CreateCommit(cfg.PRTargetBranch,
\* cfg.BranchName, ...) and return.  A missing flag is fatal in
\* createGithubClient; any failing step is fatal: before the commit exists
\* ("early") or at the merge request, after it ("late").
ApiCommit ==
    /\ mpc = "apicommit"
    /\ IF ~(repoOwner /\ repo /\ gitHubAppId)
       THEN Fatalf("config") /\ UNCHANGED <<apiCommits, prRequests>>
       ELSE IF ~keyOk
       THEN Fatalf("api") /\ UNCHANGED <<apiCommits, prRequests>>
       ELSE \E outcome \in {"done", "early", "late"} :
              CASE outcome = "early" ->
                     Fatalf("api") /\ UNCHANGED <<apiCommits, prRequests>>
                [] outcome = "late" ->
                     /\ Fatalf("api")
                     /\ apiCommits' = apiCommits + 1
                     /\ prRequests' = Append(prRequests, Request(BranchName))
                [] OTHER ->
                     /\ ReturnFromMain
                     /\ apiCommits' = apiCommits + 1
                     /\ prRequests' = Append(prRequests, Request(BranchName))
    /\ UNCHANGED <<mcfg, cloned, mtodo, mcur, switched, committed, updatedBranches,
                   execs, pushExecs, queries, pushedBranches>>
    /\ UNCHANGED <<rvars, nvars, tvars, pvars, gvars, wvars, fvars, hvars, cvars>>

\* default: workdir.Push(updatedBranches)
GitPush ==
    /\ mpc = "gitpush"
    /\ \E ok \in BOOLEAN :
         IF ok THEN Goto("server") /\ pushedBranches' = pushedBranches \o updatedBranches
         ELSE Fatalf("gitpush") /\ UNCHANGED pushedBranches
    /\ UNCHANGED <<mcfg, cloned, mtodo, mcur, switched, committed, updatedBranches,
                   execs, pushExecs, queries, prRequests, apiCommits>>
    /\ UNCHANGED <<rvars, nvars, tvars, pvars, gvars, wvars, fvars, hvars, cvars>>

\* createPullRequests: getGitServer(cfg.GitHost); an unknown host is fatal
GetGitServer ==
    /\ mpc = "server"
    /\ IF GitHost \in Servers THEN Goto("prs") ELSE Fatalf("config")
    /\ UNCHANGED <<mcfg, cloned, mtodo, mcur, switched, committed, updatedBranches,
                   execs, pushExecs, queries, pushedBranches, prRequests, apiCommits>>
    /\ UNCHANGED <<rvars, nvars, tvars, pvars, gvars, wvars, fvars, hvars, cvars>>

\* createPullRequests: server.CreatePR for the next branch; its error is
\* fatal; after the last branch main returns
CreateNextPR ==
    /\ mpc = "prs"
    /\ IF Len(prRequests) = Len(updatedBranches)
       THEN ReturnFromMain /\ UNCHANGED prRequests
       ELSE /\ prRequests' = Append(prRequests,
                   Request(DeployBranch(updatedBranches[Len(prRequests) + 1])))
            /\ \E ok \in BOOLEAN : IF ok THEN Goto("prs") ELSE Fatalf("createpr")
    /\ UNCHANGED <<mcfg, cloned, mtodo, mcur, switched, committed, updatedBranches,
                   execs, pushExecs, queries, pushedBranches, apiCommits>>
    /\ UNCHANGED <<rvars, nvars, tvars, pvars, gvars, wvars, fvars, hvars, cvars>>

RunNext ==
    \/ Chdir \/ FindTrains \/ NoMatch \/ MkdirTemp \/ Clone \/ SelectTrain
    \/ RunTarget \/ ModifiedFiles \/ CommitTrain \/ Decide \/ PushCommand
    \/ Publish \/ ApiCommit \/ GitPush \/ GetGitServer \/ CreateNextPR

SpecRun == RunInit /\ [][RunNext]_vars

----------------------------------------------------------------------------
(* Claims about a run of main (checked under SpecRun) *)

\* the process has ended
Ended == mpc \in {"exit", "fatal", "panic"}

\* C14: a configuration error of the hosting backend (unsupported backend
\* name, missing owner, repository or app id) ends the run before any
\* mutation: nothing cloned, no branch switched or committed, no image
\* pushed, no branch pushed.
C14_ConfigErrorBeforeMutation ==
    (mpc = "fatal" /\ cause = "config") =>
        /\ ~cloned /\ switched = {} /\ committed = {}
        /\ Pushed = {} /\ pushedBranches = <<>>

\* C15: in a dry run no push command is executed, no branch is pushed, no
\* merge request is requested and no commit is made through the hosting API.
C15_DryRunStopsAfterCommit ==
    DryRun => /\ Pushed = {} /\ pushedBranches = <<>>
              /\ prRequests = <<>> /\ apiCommits = 0

\* C16: with at least one resolved binary supplied, the run makes no
\* build-graph query, neither for the trains nor for the push targets.
C16_NoQueryWithResolvedBinaries == ResolvedBinaries => queries = <<>>

\* C17: once the temporary checkout directory exists, it is removed on every
\* exit of the run, the fatal exits included.
C17_TmpDirRemoved == (Ended /\ tmpDir # "none") => tmpDir = "removed"

\* number of merge request creations requested from a branch into the
\* PR target branch
RequestsFrom(b) ==
    Cardinality({ i \in 1..Len(prRequests) : prRequests[i] = Request(b) })
\* the trains whose commit reported changes
Changed == { updatedBranches[i] : i \in 1..Len(updatedBranches) }

\* C18: when a run that is no dry run returns, one merge request creation
\* was requested from the deployment branch of every train that committed
\* changes, and none from the branch of a clean train, whatever the backend.
C18_OneRequestPerChangedBranch ==
    (mpc = "exit" /\ ~DryRun) =>
        \A t \in runTrains :
            RequestsFrom(DeployBranch(t)) = (IF t \in Changed THEN 1 ELSE 0)

\* C19: as long as no commit has reported changes, the run makes no push
\* query, runs no push command, pushes no branch, requests no merge request
\* and makes no API commit; it never enters the push or publish phase, so
\* once the loop is over it can only return.
C19_NoChangesNoAction ==
    updatedBranches = <<>> =>
        /\ \A i \in 1..Len(queries) : queries[i] # "push"
        /\ Pushed = {} /\ pushedBranches = <<>> /\ prRequests = <<>>
        /\ apiCommits = 0
        /\ mpc \notin {"push", "apicommit", "gitpush", "server", "prs", "panic"}
        /\ mpc = "fatal" =>
               cause \in {"chdir", "format", "query", "mktemp", "clone", "exec", "diff"}

\* witness of C19: every train was committed, none reported changes, and
\* main returned
C19_Witness ==
    /\ mpc = "exit" /\ cloned /\ Cardinality(runTrains) >= 2
    /\ committed = runTrains /\ updatedBranches = <<>>

\* C20: no external command is executed twice, and when a target executable
\* or a push command has failed the process is dead, no branch was pushed,
\* no merge request was requested and no API commit was made.
C20_CommandFailureIsFatal ==
    /\ \A t \in DOMAIN execs : execs[t] <= 1
    /\ \A i \in DOMAIN pushExecs : pushExecs[i] <= 1
    /\ cause \in {"exec", "pushcmd"} =>
           /\ mpc = "fatal"
           /\ pushedBranches = <<>> /\ prRequests = <<>> /\ apiCommits = 0

\* witness of C20: a push command failed after another one had succeeded
C20_Witness ==
    /\ mpc = "fatal" /\ cause = "pushcmd" /\ Cardinality(Pushed) >= 2
    /\ updatedBranches # <<>>

----------------------------------------------------------------------------
(* Claims about the traversal of the resolver (checked under SpecResolve) *)

\* the mappings of a tree, at every depth
RECURSIVE MapNodes(_)
MapNodes(node) ==
    IF node.t = "map"
    THEN {node.v} \cup UNION { MapNodes(node.v[k]) : k \in DOMAIN node.v }
    ELSE IF node.t = "seq"
    THEN UNION { MapNodes(node.v[i]) : i \in 1..Len(node.v) }
    ELSE {}

\* the document written last (every written document is the last one in
\* the state its write leads to): its index in OutDocs, as a set
LastWritten == IF emitted = <<>> THEN {} ELSE {Len(emitted)}
\* the mappings of the input tree of the document written last
WrittenNodes == UNION { MapNodes(Map(input[emitted[j]].obj)) : j \in LastWritten }

\* one of the four fields is present at the node
HasShape(n) == \E i \in 1..Len(ShapePaths) : ShapePaths[i] \in DOMAIN n
\* the shapes of the node were handled without error and findAndReplaceTag
\* goes on into the children of the node
Recurses(n) ==
    LET p == PathLoop(imgmap, n, 1, FALSE) IN p.res.r = "ok" /\ ~p.found
Handled(n) == PathLoop(imgmap, n, 1, FALSE).res.r = "ok"

RECURSIVE EnvPairs(_, _)
EnvPairs(a, b) ==
    IF a.t = "map"
    THEN (IF "env" \in DOMAIN a.v /\ a.v["env"].t = "seq"
          THEN {<<a.v["env"].v, b.v["env"].v>>} ELSE {})
         \cup UNION { EnvPairs(a.v[k], b.v[k]) : k \in DOMAIN a.v }
    ELSE IF a.t = "seq"
    THEN UNION { EnvPairs(a.v[i], b.v[i]) : i \in 1..Len(a.v) }
    ELSE {}
\* the env lists of the document written last, before and after
WrittenEnvs ==
    UNION { EnvPairs(Map(input[emitted[j]].obj), Map(OutDocs[j].obj)) : j \in LastWritten }

\* an env entry with a string name and, if it has a value, a string value
NamedEntry(kv) == kv.t = "map" /\ "name" \in DOMAIN kv.v /\ kv.v["name"].t = "str"
StringValue(kv) == "value" \in DOMAIN kv.v /\ kv.v["value"].t = "str"
\* an entry whose name contains IMAGE_URL and whose string value begins with
\* "//" or ":"
ImageUrlEntry(kv) ==
    /\ NamedEntry(kv) /\ Contains(kv.v["name"].v, IMAGE_URL) /\ StringValue(kv)
    /\ \/ HasPrefix(kv.v["value"].v, BuildPrefix)
       \/ HasPrefix(kv.v["value"].v, ColonPrefix)
\* the key such an entry is looked up by
EnvKey(kv) ==
    IF HasPrefix(kv.v["value"].v, ColonPrefix)
    THEN SubSeq(kv.v["value"].v, 2, Len(kv.v["value"].v))
    ELSE kv.v["value"].v
\* the loop of updateContainerEnv goes past the entry
Passed(kv) ==
    NamedEntry(kv) /\ (Contains(kv.v["name"].v, IMAGE_URL) => StringValue(kv))

\* C24: in every container spec of a written document, every env entry
\* whose name contains IMAGE_URL and whose value begins with "//" or ":" has
\* the value of the image map for its key, whatever entries precede it, and
\* every other entry is as it was.
C24_EveryEntryRewritten ==
    \A pr \in WrittenEnvs : \A i \in 1..Len(pr[1]) :
        IF ImageUrlEntry(pr[1][i])
        THEN pr[2][i] = Map([pr[1][i].v EXCEPT !["value"] = Str(MapGet(imgmap, EnvKey(pr[1][i])))])
        ELSE pr[2][i] = pr[1][i]

C23_NoCrash == ret # "panic"

----------------------------------------------------------------------------
(* github_app.getFilesToCommit (SpecFiles) *)

MaxPaths == 2

Slash == <<"/">>

\* strings.TrimSuffix
TrimSuffix(s, suf) ==
    IF Len(s) >= Len(suf) /\ SubSeq(s, Len(s) - Len(suf) + 1, Len(s)) = suf
    THEN SubSeq(s, 1, Len(s) - Len(suf)) ELSE s

\* filepath.Clean on paths without "." and ".." elements: runs of separators
\* become one separator and a trailing separator is dropped
RECURSIVE CleanFrom(_, _, _)
CleanFrom(s, i, acc) ==
    IF i > Len(s)
    THEN IF Len(acc) > 1 /\ acc[Len(acc)] = "/" THEN SubSeq(acc, 1, Len(acc) - 1) ELSE acc
    ELSE IF s[i] = "/" /\ Len(acc) > 0 /\ acc[Len(acc)] = "/"
    THEN CleanFrom(s, i + 1, acc)
    ELSE CleanFrom(s, i + 1, Append(acc, s[i]))
Clean(s) == CleanFrom(s, 1, <<>>)

\* filepath.Join of two elements: empty elements are ignored, the result
\* is cleaned
Join(a, b) ==
    IF a = <<>> THEN Clean(b) ELSE IF b = <<>> THEN Clean(a) ELSE Clean(a \o Slash \o b)

\* filepath.Rel(base, path) for a path below the clean directory base
Rel(base, path) == TrimPrefix(path, base \o Slash)

\* the checkout root (the gitopsPath argument)
gitopsPath == <<"/", "r">>

\* the checkout: its regular files in the lexical order filepath.Walk visits
\* them in, and its directories (one of them empty), relative to the root
FileList ==
    << <<"d", "/", "f">>, <<"d", "/", "s", "/", "h">>, <<"g">> >>
DirSet == { <<"d">>, <<"d", "/", "s">>, <<"e">> }

FullOf(rel) == gitopsPath \o Slash \o rel
\* os.Stat of an absolute path: "file", "dir", or "missing"
Stat(abs) ==
    IF \E i \in 1..Len(FileList) : abs = FullOf(FileList[i]) THEN "file"
    ELSE IF abs = gitopsPath \/ \E d \in DirSet : abs = FullOf(d) THEN "dir"
    ELSE "missing"

\* a walk that lists only the files directly in the directory
WalkDirectOnly(abs) ==
    SelectSeq([i \in 1..Len(FileList) |-> FullOf(FileList[i])],
              LAMBDA f : HasPrefix(f, abs \o Slash)
                         /\ ~Contains(SubSeq(f, Len(abs) + 2, Len(f)), Slash))

\* filepath.Walk(abs, ...): the non-directories below abs, in the order the
\* callback sees them
Walk(abs) ==
    SelectSeq([i \in 1..Len(FileList) |-> FullOf(FileList[i])],
              LAMBDA f : HasPrefix(f, abs \o Slash))

FileEntry(rel, full) == [RelativePath |-> rel, FullPath |-> full]

\* the input paths a caller hands over: a directory with a subdirectory,
\* the same with a trailing separator, the subdirectory, two files, an
\* empty directory and a path that does not exist
InputCandidates ==
    { <<"d">>, <<"d", "/">>, <<"d", "/", "s">>, <<"d", "/", "f">>, <<"g">>, <<"e">>, <<"x">> }

PathLists == UNION { [1..n -> InputCandidates] : n \in 0..MaxPaths }

FilesInit ==
    /\ inputPaths \in PathLists
    /\ pathIdx = 1 /\ allFileEntries = <<>> /\ filesRet = "running" /\ entriesRet = <<>>
    /\ ResolveIdle /\ NameIdle /\ TrainsIdle /\ PushIdle /\ HostIdle /\ RunIdle /\ CheckoutIdle

\* the loop variable after strings.TrimSuffix, and absInputPath
InputPath == TrimSuffix(inputPaths[pathIdx], Slash)
AbsInputPath == Join(gitopsPath, InputPath)
InLoop == filesRet = "running" /\ pathIdx <= Len(inputPaths)

FilesOthers == UNCHANGED <<rvars, nvars, tvars, pvars, gvars, wvars, hvars, cvars, mvars>>

\* os.Stat fails: return nil, err
StatFails ==
    /\ InLoop /\ Stat(AbsInputPath) = "missing"
    /\ filesRet' = "errStat" /\ entriesRet' = <<>>
    /\ UNCHANGED <<inputPaths, pathIdx, allFileEntries>>
    /\ FilesOthers

\* a directory: the walk appends an entry for every non-directory below it
WalkDir ==
    /\ InLoop /\ Stat(AbsInputPath) = "dir"
    /\ LET w == Walk(AbsInputPath) IN
       allFileEntries' = allFileEntries \o
           [i \in 1..Len(w) |-> FileEntry(Rel(gitopsPath, w[i]), w[i])]
    /\ pathIdx' = pathIdx + 1
    /\ UNCHANGED <<inputPaths, filesRet, entriesRet>>
    /\ FilesOthers

\* a directory the walk fails in (the callback is handed an error):
\* return nil, err
WalkFails ==
    /\ InLoop /\ Stat(AbsInputPath) = "dir"
    /\ filesRet' = "errWalk" /\ entriesRet' = <<>>
    /\ UNCHANGED <<inputPaths, pathIdx, allFileEntries>>
    /\ FilesOthers

\* a single file: the input path itself is the relative path
SingleFile ==
    /\ InLoop /\ Stat(AbsInputPath) = "file"
    /\ allFileEntries' = Append(allFileEntries, FileEntry(InputPath, AbsInputPath))
    /\ pathIdx' = pathIdx + 1
    /\ UNCHANGED <<inputPaths, filesRet, entriesRet>>
    /\ FilesOthers

\* after the loop: no entry at all is an error
FilesReturn ==
    /\ filesRet = "running" /\ pathIdx > Len(inputPaths)
    /\ IF Len(allFileEntries) = 0
       THEN filesRet' = "errEmpty" /\ entriesRet' = <<>>
       ELSE filesRet' = "ok" /\ entriesRet' = allFileEntries
    /\ UNCHANGED <<inputPaths, pathIdx, allFileEntries>>
    /\ FilesOthers

FilesNext == StatFails \/ WalkDir \/ WalkFails \/ SingleFile \/ FilesReturn

SpecFiles == FilesInit /\ [][FilesNext]_vars

----------------------------------------------------------------------------
(* Claims about getFilesToCommit (checked under SpecFiles) *)

\* the call has returned, and not because of a failing directory walk
FilesReturned == filesRet \in {"ok", "errStat", "errEmpty"}
\* the absolute path the i-th input path names
Named(i) == Join(gitopsPath, TrimSuffix(inputPaths[i], Slash))
AllExist == \A i \in 1..Len(inputPaths) : Stat(Named(i)) # "missing"
CheckoutFiles == { FullOf(FileList[k]) : k \in 1..Len(FileList) }
\* the regular files reached through the i-th input path: the path itself,
\* or the files at any depth below it
Reached(i) == { f \in CheckoutFiles : f = Named(i) \/ HasPrefix(f, Named(i) \o Slash) }
ReachedAny == UNION { Reached(i) : i \in 1..Len(inputPaths) }
\* the entries returned for the file f
EntriesOf(f) == { k \in 1..Len(entriesRet) : entriesRet[k].FullPath = f }
\* every entry has a path relative to the root, and the root joined with it
\* is its full path
WellFormedEntries ==
    \A k \in 1..Len(entriesRet) :
        /\ ~HasPrefix(entriesRet[k].RelativePath, Slash)
        /\ entriesRet[k].FullPath = Join(gitopsPath, entriesRet[k].RelativePath)

----------------------------------------------------------------------------
(* A run of main in which github_app.CreateCommit is taken step by step     *)
(* (SpecAppRun): the actions of SpecRun up to the switch on cfg.GitHost,    *)
(* then the actions of SpecCreateCommit.                                    *)

\* the backends of these runs: the app-credential one and a token one
AppRunHosts == {"github_app", "github"}

AppRunInit == RunInit /\ GitHost \in AppRunHosts /\ ResolvedPushes

\* case "github_app": main calls github_app.CreateCommit.  What the call
\* finds (the paths of modifiedFiles, the references and merge requests on
\* the host, a call the host rejects) is fixed here.
CallCreateCommit ==
    /\ mpc = "apicommit" /\ ccpc = "idle"
    /\ Goto("incommit")
    /\ ccFilesOk' \in BOOLEAN /\ refExists' \in BOOLEAN /\ prExists' \in BOOLEAN
    /\ apiFail' \in ApiCalls \cup {"none"}
    /\ calls' = <<>>
    /\ hostBranch' = (IF refExists' THEN "old" ELSE "absent")
    /\ ccpc' = "client"
    /\ UNCHANGED <<mcfg, cloned, mtodo, mcur, switched, committed, updatedBranches,
                   execs, pushExecs, queries, pushedBranches, prRequests, apiCommits>>
    /\ UNCHANGED <<rvars, nvars, tvars, pvars, gvars, wvars, fvars, hvars>>

\* CreateCommit is over: it returned and main returns, or one of its
\* log.Fatal calls ended the process
CreateCommitOver ==
    /\ mpc = "incommit" /\ ccpc \in {"returned", "fatal"}
    /\ IF ccpc = "returned" THEN ReturnFromMain
       ELSE IF calls = <<>> /\ ~(repoOwner /\ repo /\ gitHubAppId) THEN Fatalf("config")
       ELSE Fatalf("api")
    /\ apiCommits' = apiCommits + (IF hostBranch = "new" THEN 1 ELSE 0)
    /\ prRequests' = IF calls # <<>> /\ calls[Len(calls)] = "CreatePR"
                     THEN Append(prRequests, Request(BranchName)) ELSE prRequests
    /\ UNCHANGED <<mcfg, cloned, mtodo, mcur, switched, committed, updatedBranches,
                   execs, pushExecs, queries, pushedBranches>>
    /\ UNCHANGED <<rvars, nvars, tvars, pvars, gvars, wvars, fvars, hvars, cvars>>

AppRunNext ==
    \/ Chdir \/ FindTrains \/ NoMatch \/ MkdirTemp \/ Clone \/ SelectTrain
    \/ RunTarget \/ ModifiedFiles \/ CommitTrain \/ Decide \/ PushCommand
    \/ Publish \/ GitPush \/ GetGitServer \/ CreateNextPR
    \/ CallCreateCommit \/ CCClient \/ CCFiles \/ CCGetRef \/ CCCreateRef
    \/ CCCreateTree \/ CCGetCommit \/ CCCommit \/ CCUpdateRef \/ CCCreatePR
    \/ CreateCommitOver

SpecAppRun == AppRunInit /\ [][AppRunNext]_vars

\* the hosting-API calls the claim lists, in the order it gives
ListedCalls == <<"GetRef", "CreateRef", "CreateTree", "CreateCommit", "UpdateRef", "CreatePR">>
\* the host rejects the call
Rejected(name) ==
    \/ apiFail = name
    \/ name = "CreateRef" /\ refExists
    \/ name = "CreatePR" /\ prExists
\* the calls issued that are among the listed ones, in the order issued
IssuedListed ==
    SelectSeq(calls, LAMBDA c : \E k \in 1..Len(ListedCalls) : ListedCalls[k] = c)

----------------------------------------------------------------------------
(* Claims about a failing CreateCommit (checked under SpecCreateCommit) *)

\* the call issued last, or "none"
LastCall == IF calls = <<>> THEN "none" ELSE calls[Len(calls)]
\* CreateCommit ended fatally at the call `name`
FatalAt(name) == ccpc = "fatal" /\ LastCall = name
\* the reference-create call has been issued
RefCreateIssued == \E k \in 1..Len(calls) : calls[k] = "CreateRef"

\* the first half of C29 and of its amended form: when the commit branch
\* exists on the host, CreateCommit ends fatally at reference-create, with
\* no call after it and the branch as it was
FatalAtExistingRef ==
    (refExists /\ RefCreateIssued) => (FatalAt("CreateRef") /\ hostBranch = "old")

\* C29 as stated: CreateCommit is not repeatable for a commit branch that
\* exists, and when a step after reference-create fails (tree-create,
\* commit-create, reference-update or the merge request) the branch created
\* is left at the base branch head.
C29_BranchLeftAtBase ==
    /\ FatalAtExistingRef
    /\ \A name \in {"CreateTree", "GetCommit", "CreateCommit", "UpdateRef", "CreatePR"} :
          FatalAt(name) => hostBranch = "base"

\* C29 amended: as stated for a failing tree-create, commit read,
\* commit-create or reference-update; when the merge request creation fails
\* the branch created is left at the new commit.
C29_BranchLeftBehind ==
    /\ FatalAtExistingRef
    /\ \A name \in {"CreateTree", "GetCommit", "CreateCommit", "UpdateRef"} :
          FatalAt(name) => hostBranch = "base"
    /\ FatalAt("CreatePR") => hostBranch = "new"

\* witness of C29: the commit branch existed and CreateCommit ended at
\* reference-create, its second call
C29_Witness ==
    refExists /\ calls = <<"GetRef", "CreateRef">> /\ ccpc = "fatal" /\ hostBranch = "old"

----------------------------------------------------------------------------
(* Claims about the publish phase of a run (checked under SpecRun) *)

\* the run is in the publish phase or has published something
Publishing ==
    \/ mpc \in {"apicommit", "gitpush", "server", "prs"}
    \/ pushedBranches # <<>> \/ prRequests # <<>> \/ apiCommits > 0

\* C30: the publish phase is reached only when BUILDKITE_COMMIT has at
\* least 7 characters.  With a shorter value a run that is no dry run and has
\* changes cannot return: it panics, after every push command has run and
\* before any branch is pushed, any merge request requested or any API
\* commit made.
C30_ShortShaStopsPublish ==
    /\ Publishing => shaLong
    /\ (mpc = "exit" /\ ~DryRun /\ updatedBranches # <<>>) => shaLong
    /\ mpc = "panic" =>
          /\ ~shaLong /\ ~DryRun /\ updatedBranches # <<>>
          /\ Cardinality(Pushed) = pushCmds
          /\ pushedBranches = <<>> /\ prRequests = <<>> /\ apiCommits = 0

\* witness of C30: a run with changes and a short commit identifier panicked
\* after its two push commands
C30_Witness ==
    /\ mpc = "panic" /\ ~shaLong /\ updatedBranches # <<>>
    /\ Cardinality(Pushed) >= 2 /\ Cardinality(Pushed) = pushCmds

----------------------------------------------------------------------------
(* Claims about the order of the checkout operations (checked under SpecRun) *)

\* main is between the branch selection and the commit of a train
InTrain == mpc \in {"exec", "diff", "commit"}
\* main is in the push phase or past it
PushPhaseOrLater == mpc \in {"push", "apicommit", "gitpush", "server", "prs"} \/ Pushed # {}

\* at most one train is between its branch selection and its commit, that
\* train is the current one, its executable runs once before its commit, and
\* once a push command has run every train is done
OneTrainAtATime ==
    /\ InTrain => (mcur \in switched /\ committed = switched \ {mcur})
    /\ (~InTrain /\ mpc \notin {"fatal", "panic"}) => committed = switched
    /\ \A t \in DOMAIN execs :
          execs[t] = (IF t \in committed \/ (t = mcur /\ mpc \in {"diff", "commit"}) THEN 1
                      ELSE IF t = mcur /\ mpc = "fatal" /\ cause = "exec" THEN 1
                      ELSE IF t = mcur /\ mpc = "fatal" /\ cause = "diff" THEN 1
                      ELSE 0)
    /\ PushPhaseOrLater => (mtodo = {} /\ mcur = NoTrain /\ committed = runTrains)

\* the steps of a train follow one another in the fixed order: selection,
\* executables, diff, commit; the push phase begins after the loop
FixedOrder ==
    /\ (mpc' = "exec" /\ mpc # "exec") => (mpc = "loop" /\ switched' = switched \cup {mcur'})
    /\ (mpc' = "diff" /\ mpc # "diff") => mpc = "exec"
    /\ (mpc' = "commit" /\ mpc # "commit") => mpc = "diff"
    /\ committed' # committed => (mpc = "commit" /\ committed' = committed \cup {mcur})
    /\ switched' # switched => mpc = "loop"
    /\ (mpc' = "push" /\ mpc # "push") => mpc = "decide"
    /\ (mpc' = "decide" /\ mpc # "decide") => (mpc = "loop" /\ mtodo = {})
    /\ (mpc = "push" /\ mpc' \notin {"fatal", "panic"}) =>
           UNCHANGED <<switched, committed, execs, mcur, mtodo, pushedBranches>>

\* C26: each train goes through branch selection, execution of its targets,
\* diff, and commit or clean, in this order; no operation of another train
\* comes between the selection and the commit of a train; and no checkout
\* operation happens while the push commands run.
C26_TrainOrder == []OneTrainAtATime /\ [][FixedOrder]_vars

\* witness of C26: two trains were taken through their steps one after the
\* other and the push commands have run
C26_Witness ==
    /\ Cardinality(committed) >= 2 /\ committed = runTrains
    /\ Cardinality(Pushed) >= 1 /\ mpc = "push"

----------------------------------------------------------------------------
(* The files of the checkout in a run with the github_app backend that is   *)
(* no dry run (SpecCheckout): the train loop of main as it changes the      *)
(* working tree, then getFilesToCommit and getTree reading modifiedFiles    *)
(* from it.  A content is named after who wrote it: "base" (the target      *)
(* branch), "prev" (an earlier run, on a deployment branch that exists) or  *)
(* the train whose executable wrote it.                                     *)

MaxFiles == 2

PathNames == <<"p1", "p2", "p3", "p4">>
\* the paths below the checkout root the executables may write
CheckoutPaths == { PathNames[i] : i \in 1..MaxFiles }
Absent == "absent"

\* the paths of a tree in the order git lists them
RECURSIVE PathsInOrder(_, _)
PathsInOrder(S, i) ==
    IF i > MaxFiles THEN <<>>
    ELSE (IF PathNames[i] \in S THEN <<PathNames[i]>> ELSE <<>>) \o PathsInOrder(S, i + 1)

\* workdir.GetModifiedFiles: the paths whose content in the working tree is
\* not that of the head of the branch
ModifiedPaths(head, tree) ==
    PathsInOrder({ p \in CheckoutPaths : head[p] # tree[p] }, 1)

CheckoutInit ==
    /\ baseTree \in [CheckoutPaths -> {Absent, "base"}]
    /\ existing \in SUBSET TrainNames
    /\ branchHead = <<>>
    /\ workTree = baseTree
    /\ wtodo \in (SUBSET TrainNames) \ {{}}
    /\ wcur = NoTrain /\ modifiedFiles = <<>> /\ listedBy = <<>>
    /\ wupdated = {} /\ treeEntries = <<>> /\ wpc = "loop"
    /\ ResolveIdle /\ NameIdle /\ TrainsIdle /\ FilesIdle /\ PushIdle /\ HostIdle /\ RunIdle

CheckoutOthers == UNCHANGED <<rvars, nvars, tvars, pvars, gvars, fvars, hvars, cvars, mvars>>

\* workdir.SwitchToBranch, and RecreateBranch when targets were deleted: the
\* working tree becomes the tree of the branch, which is that of the target
\* branch when the branch is new or recreated
WSwitch ==
    /\ wpc = "loop" /\ wtodo # {}
    /\ \E t \in wtodo : \E recreate \in BOOLEAN :
         LET head == IF t \in existing /\ ~recreate
                     THEN [p \in CheckoutPaths |-> "prev"] ELSE baseTree
         IN /\ wcur' = t /\ wtodo' = wtodo \ {t}
            /\ branchHead' = (t :> head) @@ branchHead
            /\ workTree' = head
    /\ wpc' = "exec"
    /\ UNCHANGED <<baseTree, existing, modifiedFiles, listedBy, wupdated, treeEntries>>
    /\ CheckoutOthers

\* the executables of the train's targets write manifests below
\* --deployment_root
WExec ==
    /\ wpc = "exec"
    /\ \E W \in SUBSET CheckoutPaths :
         workTree' = [p \in CheckoutPaths |-> IF p \in W THEN wcur ELSE workTree[p]]
    /\ wpc' = "diff"
    /\ UNCHANGED <<baseTree, existing, branchHead, wtodo, wcur, modifiedFiles, listedBy,
                   wupdated, treeEntries>>
    /\ CheckoutOthers

\* files, err := workdir.GetModifiedFiles(); modifiedFiles = append(modifiedFiles, files...)
WDiff ==
    /\ wpc = "diff"
    /\ LET files == ModifiedPaths(branchHead[wcur], workTree)
       IN /\ modifiedFiles' = modifiedFiles \o files
          /\ listedBy' = listedBy \o [k \in 1..Len(files) |-> wcur]
    /\ wpc' = "commit"
    /\ UNCHANGED <<baseTree, existing, branchHead, workTree, wtodo, wcur, wupdated,
                   treeEntries>>
    /\ CheckoutOthers

\* workdir.Commit: the working tree becomes the head of the branch; TRUE
\* when there was something to commit
WCommit ==
    /\ wpc = "commit"
    /\ wupdated' = IF workTree # branchHead[wcur] THEN wupdated \cup {wcur} ELSE wupdated
    /\ branchHead' = [branchHead EXCEPT ![wcur] = workTree]
    /\ wpc' = "loop"
    /\ UNCHANGED <<baseTree, existing, workTree, wtodo, wcur, modifiedFiles, listedBy,
                   treeEntries>>
    /\ CheckoutOthers

\* after the loop: nothing to push, return; else (after the push phase)
\* github_app.CreateCommit(..., gitopsDir, modifiedFiles, ...)
WDecide ==
    /\ wpc = "loop" /\ wtodo = {}
    /\ wpc' = IF wupdated # {} THEN "stat" ELSE "returned"
    /\ wcur' = NoTrain
    /\ UNCHANGED <<baseTree, existing, branchHead, workTree, wtodo, modifiedFiles, listedBy,
                   wupdated, treeEntries>>
    /\ CheckoutOthers

\* getFilesToCommit: os.Stat of every path; a path that is not in the
\* working tree is an error, which CreateCommit makes fatal
WStat ==
    /\ wpc = "stat"
    /\ wpc' = IF \E k \in 1..Len(modifiedFiles) : workTree[modifiedFiles[k]] = Absent
              THEN "fatal" ELSE "tree"
    /\ UNCHANGED <<baseTree, existing, branchHead, workTree, wtodo, wcur, modifiedFiles,
                   listedBy, wupdated, treeEntries>>
    /\ CheckoutOthers

\* getTree: os.ReadFile of every entry, from the working tree as it is now
WTree ==
    /\ wpc = "tree"
    /\ treeEntries' = [k \in 1..Len(modifiedFiles) |->
                          [path |-> modifiedFiles[k], content |-> workTree[modifiedFiles[k]]]]
    /\ wpc' = "returned"
    /\ UNCHANGED <<baseTree, existing, branchHead, workTree, wtodo, wcur, modifiedFiles,
                   listedBy, wupdated>>
    /\ CheckoutOthers

CheckoutNext == WSwitch \/ WExec \/ WDiff \/ WCommit \/ WDecide \/ WStat \/ WTree

SpecCheckout == CheckoutInit /\ [][CheckoutNext]_vars

\* C28: in a run with several changed trains, when CreateCommit reads the
\* accumulated list every path of it exists in the checkout (so that the
\* call does not end at getFilesToCommit), and the content read for each
\* file is the one written by the train that listed the file.
C28_FilesOfOwnTrain ==
    Cardinality(wupdated) >= 2 =>
        /\ wpc \in {"stat", "tree"} =>
              \A k \in 1..Len(modifiedFiles) : workTree[modifiedFiles[k]] # Absent
        /\ \A k \in 1..Len(treeEntries) : treeEntries[k].content = listedBy[k]
        /\ wpc # "fatal"

====
